---------------------------- MODULE Spec2Model ----------------------------
(***************************************************************************)
(* A model of the parallel log analyser.                                   *)
(*                                                                         *)
(*   Spec / FairSpec     LogAnalyzer.analyze (log_Analyzer.py): producer,  *)
(*                       bounded task queue, N worker_entry processes,    *)
(*                       result queue, liveness-polling collector, _merge.*)
(*   SpecSeq             processor.run_sequential_from_dir over           *)
(*                       log_utils.iter_chunks_from_dir, with             *)
(*                       analysis.analyze_chunk and merge_partial_results.*)
(*   SpecMerge           analysis.merge_partial_results folded over a bag *)
(*                       of partial results in every order.                *)
(*   SpecPM / FairSpecPM parallel_manager.ParallelManager.run with        *)
(*                       processor.worker_loop workers.                    *)
(*                                                                         *)
(* A log line is the sequence of its space-separated tokens (what          *)
(* str.split(" ") yields); tokens are strings and the character-level      *)
(* conversions (strip, upper, strptime, strftime) work on their            *)
(* characters.  A Python dict is the sequence of its <<key, value>> items  *)
(* in insertion order; two dicts are equal as mappings when AsMap agrees.  *)
(***************************************************************************)
EXTENDS Integers, Sequences, FiniteSets, TLC

(***************************************************************************)
(* Bounds of the model.                                                    *)
(***************************************************************************)
MaxFiles == 2
MaxLines == 4
MaxChunk == 2
MaxWorkers == 2
MaxLoad == 7
MaxSumLen == 2
MaxTopN == 3
MaxTasks == 3
MaxBurst == 6

(***************************************************************************)
(* Program constants.                                                      *)
(***************************************************************************)
QueueFactor == 4

\* config.DEFAULT_LINES_PER_CHUNK
DEFAULT_LINES_PER_CHUNK == 1000

\* config.DEFAULT_MAX_WORKERS
DEFAULT_MAX_WORKERS == 4
TopN == 10

-----------------------------------------------------------------------------
(***************************************************************************)
(* Generic helpers.                                                        *)
(***************************************************************************)
Range(s) == {s[i] : i \in DOMAIN s}

Max2(a, b) == IF a >= b THEN a ELSE b

Min2(a, b) == IF a <= b THEN a ELSE b

RECURSIVE SumSeq(_)
SumSeq(s) == IF s = <<>> THEN 0 ELSE Head(s) + SumSeq(Tail(s))

RECURSIVE Flatten(_)
Flatten(ss) == IF ss = <<>> THEN <<>> ELSE Head(ss) \o Flatten(Tail(ss))

Perms(S) == {p \in [1..Cardinality(S) -> S] : \A i, j \in DOMAIN p : i # j => p[i] # p[j]}

-----------------------------------------------------------------------------
(***************************************************************************)
(* Strings, character by character.                                        *)
(***************************************************************************)
Ch(s, i) == SubSeq(s, i, i)

Digits == "0123456789"

LowerCase == "abcdefghijklmnopqrstuvwxyz"

UpperCase == "ABCDEFGHIJKLMNOPQRSTUVWXYZ"

IsDigit(c) == \E i \in 1..10 : Ch(Digits, i) = c

DigitVal(c) == (CHOOSE i \in 1..10 : Ch(Digits, i) = c) - 1

IsWordChar(c) ==
    \/ IsDigit(c)
    \/ c = "_"
    \/ \E i \in 1..26 : Ch(LowerCase, i) = c \/ Ch(UpperCase, i) = c

UpperChar(c) ==
    IF \E i \in 1..26 : Ch(LowerCase, i) = c
    THEN Ch(UpperCase, CHOOSE i \in 1..26 : Ch(LowerCase, i) = c)
    ELSE c

\* str.upper()
RECURSIVE Upper(_)
Upper(s) == IF Len(s) = 0 THEN "" ELSE UpperChar(Ch(s, 1)) \o Upper(SubSeq(s, 2, Len(s)))

\* str.strip("[]"): drops leading and trailing characters that are "[" or "]"
RECURSIVE StripBrackets(_)
StripBrackets(s) ==
    IF Len(s) = 0 THEN ""
    ELSE IF Ch(s, 1) \in {"[", "]"} THEN StripBrackets(SubSeq(s, 2, Len(s)))
    ELSE IF Ch(s, Len(s)) \in {"[", "]"} THEN StripBrackets(SubSeq(s, 1, Len(s) - 1))
    ELSE s

AllDigits(s) == \A i \in 1..Len(s) : IsDigit(Ch(s, i))

\* the value of a two-digit field, -1 when it is not two digits
Num2(s) == IF Len(s) = 2 /\ AllDigits(s) THEN 10 * DigitVal(Ch(s, 1)) + DigitVal(Ch(s, 2)) ELSE -1

-----------------------------------------------------------------------------
(***************************************************************************)
(* Python dicts, in insertion order.                                       *)
(***************************************************************************)
EmptyDict == <<>>

DictKeys(d) == {d[i][1] : i \in DOMAIN d}

DictHas(d, k) == \E i \in DOMAIN d : d[i][1] = k

\* d.get(k, dflt)
DictGet(d, k, dflt) ==
    IF DictHas(d, k) THEN d[CHOOSE i \in DOMAIN d : d[i][1] = k][2] ELSE dflt

\* d[k] = v: an existing key keeps its position, a new key goes last
DictSet(d, k, v) ==
    IF DictHas(d, k)
    THEN [i \in DOMAIN d |-> IF d[i][1] = k THEN <<k, v>> ELSE d[i]]
    ELSE Append(d, <<k, v>>)

\* d[k] = d.get(k, 0) + c   (also Counter: d[k] += c)
DictAdd(d, k, c) == DictSet(d, k, DictGet(d, k, 0) + c)

\* the mapping a dict denotes (dict equality ignores insertion order)
AsMap(d) == [k \in DictKeys(d) |-> DictGet(d, k, 0)]

DictSum(d) == SumSeq([i \in DOMAIN d |-> d[i][2]])

-----------------------------------------------------------------------------
(***************************************************************************)
(* Log lines.  LinePool holds the line shapes the analysers tell apart;    *)
(* Layout strings them into one long text, with addresses, levels and days *)
(* that come back, and line j of the file named n is line j of that text   *)
(* read from the file's own starting point.                                *)
(***************************************************************************)
LinePool ==
    << <<"2025-10-08", "08:32:15,124", "[INFO]", "192.168.1.10", "login">>,
       <<"2025-10-08", "09:00:00,000", "[ERROR]", "10.0.0.1", "boom">>,
       <<"2025-10-08", "08:40:00", "[WARN]", "192.168.1.10", "slow">>,
       <<>>,
       <<"2025-10-09", "9h", "[error]", "10.0.0.1", "boom">>,
       <<"2025-10-08", "10:00:00,000", "[WARNING]", "10.0.0.2", "ERROR", "seen">>,
       <<"2025-10-09", "[ERROR]", "192.168.1.11", "Backup", "failed">>,
       <<"oops", "ERROR", "at", "startup">> >>

Layout == <<2, 5, 4, 2, 6, 7, 8, 1, 3>>

\* line j of file n when the text is read from position s on
LineAt(n, j, s) == LinePool[Layout[((3 * (n - 1) + (j - 1) + s) % Len(Layout)) + 1]]

\* what "for line in fh" yields for a stored line: the line with its newline
ReadLine(line) == Append(line, "\n")

\* line.rstrip("\n")
RECURSIVE RStripNL(_)
RStripNL(line) ==
    IF line # <<>> /\ line[Len(line)] = "\n" THEN RStripNL(SubSeq(line, 1, Len(line) - 1))
    ELSE line

None == [is_none |-> TRUE]

-----------------------------------------------------------------------------
(***************************************************************************)
(* log_utils.parse_log_line and analysis._safe_parse_datetime.             *)
(***************************************************************************)
\* line.split(" ", 3) has fewer than 4 parts: None; else the four fields
parse_log_line(line) ==
    IF Len(line) < 4 THEN None
    ELSE [datetime |-> line[1] \o " " \o line[2],
          level |-> StripBrackets(line[3]),
          ip |-> line[4],
          message |-> SubSeq(line, 5, Len(line))]

\* datetime.strptime(s, "%Y-%m-%d %H:%M:%S") on zero-padded fields, and with
\* frac the format "%Y-%m-%d %H:%M:%S,%f"
Strptime(s, frac) ==
    LET shape ==
            /\ Len(s) >= 19
            /\ AllDigits(SubSeq(s, 1, 4))
            /\ Ch(s, 5) = "-" /\ Ch(s, 8) = "-" /\ Ch(s, 11) = " "
            /\ Ch(s, 14) = ":" /\ Ch(s, 17) = ":"
            /\ Num2(SubSeq(s, 6, 7)) \in 1..12
            /\ Num2(SubSeq(s, 9, 10)) \in 1..31
            /\ Num2(SubSeq(s, 12, 13)) \in 0..23
            /\ Num2(SubSeq(s, 15, 16)) \in 0..59
            /\ Num2(SubSeq(s, 18, 19)) \in 0..61
        tail ==
            IF frac
            THEN /\ Len(s) \in 21..26
                 /\ Ch(s, 20) = ","
                 /\ AllDigits(SubSeq(s, 21, Len(s)))
            ELSE Len(s) = 19
    IN  IF shape /\ tail THEN [ymd |-> SubSeq(s, 1, 10), H |-> SubSeq(s, 12, 13)] ELSE None

_safe_parse_datetime(dt_str) ==
    IF Len(dt_str) = 0 THEN None
    ELSE IF Strptime(dt_str, TRUE) # None THEN Strptime(dt_str, TRUE)
    ELSE Strptime(dt_str, FALSE)

\* dt.strftime("%Y-%m-%d %H")
Strftime(dt) == dt.ymd \o " " \o dt.H

-----------------------------------------------------------------------------
(***************************************************************************)
(* analysis.analyze_chunk and analysis.merge_partial_results.              *)
(***************************************************************************)
\* what analyze_chunk reads off one line: parse_log_line's answer, the level in
\* upper case, the address, and the hour key of the line's timestamp
line_fields(line) ==
    LET parsed == parse_log_line(line)
        dt == _safe_parse_datetime(parsed.datetime)
    IN  IF parsed = None THEN [parsed |-> FALSE, level |-> "", ip |-> "", key |-> ""]
        ELSE [parsed |-> TRUE,
              level |-> Upper(parsed.level),
              ip |-> parsed.ip,
              key |-> IF dt # None THEN Strftime(dt) ELSE "unknown"]

\* line_fields of every line of LinePool, computed once
LineFields == {<<LinePool[i], line_fields(LinePool[i])>> : i \in DOMAIN LinePool}

FieldsOf(line) ==
    IF \E p \in LineFields : p[1] = line
    THEN (CHOOSE p \in LineFields : p[1] = line)[2]
    ELSE line_fields(line)

\* faulty variant: an address is counted once per chunk, however often it occurs
analyze_line_once(st, line) ==
    LET f == FieldsOf(line)
        st1 == [st EXCEPT !.lines_total = @ + 1]
        st2 == IF Len(f.level) > 0
               THEN [st1 EXCEPT !.by_level = DictAdd(@, f.level, 1)]
               ELSE st1
        st3 == IF Len(f.ip) > 0
               THEN [st2 EXCEPT !.top_ips = DictSet(@, f.ip, 1)]
               ELSE st2
    IN  IF ~f.parsed THEN st1
        ELSE IF f.level = "ERROR"
        THEN [st3 EXCEPT !.errors_by_hour = DictAdd(@, f.key, 1)]
        ELSE st3

\* faulty variant: a line the parser rejects is skipped before it is counted
analyze_line_skip(st, line) ==
    LET f == FieldsOf(line)
        st1 == [st EXCEPT !.lines_total = @ + 1]
        st2 == IF Len(f.level) > 0
               THEN [st1 EXCEPT !.by_level = DictAdd(@, f.level, 1)]
               ELSE st1
        st3 == IF Len(f.ip) > 0
               THEN [st2 EXCEPT !.top_ips = DictAdd(@, f.ip, 1)]
               ELSE st2
    IN  IF ~f.parsed THEN st
        ELSE IF f.level = "ERROR"
        THEN [st3 EXCEPT !.errors_by_hour = DictAdd(@, f.key, 1)]
        ELSE st3

\* one iteration of "for line in lines" on the running counters
analyze_line(st, line) ==
    LET f == FieldsOf(line)
        st1 == [st EXCEPT !.lines_total = @ + 1]
        st2 == IF Len(f.level) > 0
               THEN [st1 EXCEPT !.by_level = DictAdd(@, f.level, 1)]
               ELSE st1
        st3 == IF Len(f.ip) > 0
               THEN [st2 EXCEPT !.top_ips = DictAdd(@, f.ip, 1)]
               ELSE st2
    IN  IF ~f.parsed THEN st1
        ELSE IF f.level = "ERROR"
        THEN [st3 EXCEPT !.errors_by_hour = DictAdd(@, f.key, 1)]
        ELSE st3

RECURSIVE analyze_lines(_, _)
analyze_lines(st, lines) ==
    IF lines = <<>> THEN st ELSE analyze_lines(analyze_line(st, Head(lines)), Tail(lines))

analyze_chunk(lines) ==
    analyze_lines([lines_total |-> 0, by_level |-> EmptyDict,
                   top_ips |-> EmptyDict, errors_by_hour |-> EmptyDict], lines)

\* faulty variant: acc[k] = cnt, the count already held is dropped
RECURSIVE DictMerge_assign(_, _)
DictMerge_assign(acc, part) ==
    IF part = <<>> THEN acc
    ELSE DictMerge_assign(DictSet(acc, Head(part)[1], Head(part)[2]), Tail(part))

\* for k, cnt in part.items(): acc[k] = acc.get(k, 0) + cnt
RECURSIVE DictMerge(_, _)
DictMerge(acc, part) ==
    IF part = <<>> THEN acc
    ELSE DictMerge(DictAdd(acc, Head(part)[1], Head(part)[2]), Tail(part))

\* an accumulator is a dict whose four entries are created on the first merge:
\* {} is the function with no key
EmptyAcc == [k \in {} |-> 0]

AccField(acc, k, dflt) == IF k \in DOMAIN acc THEN acc[k] ELSE dflt

\* faulty variant: the addresses of a partial are taken only while acc has none
merge_partial_results_first(acc, part) ==
    [lines_total |-> AccField(acc, "lines_total", 0) + part.lines_total,
     by_level |-> DictMerge(AccField(acc, "by_level", EmptyDict), part.by_level),
     top_ips |-> IF AccField(acc, "top_ips", EmptyDict) = EmptyDict
                 THEN part.top_ips
                 ELSE acc.top_ips,
     errors_by_hour |->
         DictMerge(AccField(acc, "errors_by_hour", EmptyDict), part.errors_by_hour)]

\* faulty variant: a key the accumulator does not hold yet is not created
merge_partial_results_known(acc, part) ==
    LET Known(d, e) == DictHas(d, e[1]) \/ d = EmptyDict
        Keep(field) ==
            LET d == AccField(acc, field, EmptyDict)
                InAcc(e) == Known(d, e)
            IN  DictMerge(d, SelectSeq(part[field], InAcc))
    IN  [lines_total |-> AccField(acc, "lines_total", 0) + part.lines_total,
         by_level |-> Keep("by_level"),
         top_ips |-> Keep("top_ips"),
         errors_by_hour |-> Keep("errors_by_hour")]

\* faulty variant: the lines of the partial are not added
merge_partial_results_dropLines(acc, part) ==
    [lines_total |-> AccField(acc, "lines_total", 0),
     by_level |-> DictMerge(AccField(acc, "by_level", EmptyDict), part.by_level),
     top_ips |-> DictMerge(AccField(acc, "top_ips", EmptyDict), part.top_ips),
     errors_by_hour |->
         DictMerge(AccField(acc, "errors_by_hour", EmptyDict), part.errors_by_hour)]

merge_partial_results(acc, part) ==
    [lines_total |-> AccField(acc, "lines_total", 0) + part.lines_total,
     by_level |-> DictMerge(AccField(acc, "by_level", EmptyDict), part.by_level),
     top_ips |-> DictMerge(AccField(acc, "top_ips", EmptyDict), part.top_ips),
     errors_by_hour |->
         DictMerge(AccField(acc, "errors_by_hour", EmptyDict), part.errors_by_hour)]

-----------------------------------------------------------------------------
(***************************************************************************)
(* The regular expressions of log_Analyzer.py, searched token by token.    *)
(* A token matches a \b-delimited pattern when the pattern is the token    *)
(* without the non-word characters around it ("[ERROR]" holds ERROR).      *)
(***************************************************************************)
RECURSIVE WordCore(_)
WordCore(tok) ==
    IF Len(tok) = 0 THEN ""
    ELSE IF ~IsWordChar(Ch(tok, 1)) THEN WordCore(SubSeq(tok, 2, Len(tok)))
    ELSE IF ~IsWordChar(Ch(tok, Len(tok))) THEN WordCore(SubSeq(tok, 1, Len(tok) - 1))
    ELSE tok

\* LEVEL_RE = \b(INFO|WARN(?:ING)?|ERROR)\b, re.I: group(1) or ""
LEVEL_RE(tok) ==
    IF Upper(WordCore(tok)) \in {"INFO", "WARN", "WARNING", "ERROR"} THEN WordCore(tok) ELSE ""

\* IP_RE = \b\d{1,3}(?:\.\d{1,3}){3}\b: group(0) or ""
IP_RE(tok) ==
    LET s == WordCore(tok)
        dots == {i \in 1..Len(s) : Ch(s, i) = "."}
        group(a, b) == b - a \in 0..2 /\ AllDigits(SubSeq(s, a, b))
    IN  IF /\ Cardinality(dots) = 3
           /\ \E d1, d2, d3 \in dots :
                 /\ d1 < d2 /\ d2 < d3
                 /\ group(1, d1 - 1) /\ group(d1 + 1, d2 - 1)
                 /\ group(d2 + 1, d3 - 1) /\ group(d3 + 1, Len(s))
        THEN s ELSE ""

\* DATE_DAY_RE = (\d{4}-\d{2}-\d{2}): group(1) of the leftmost match or ""
DATE_DAY_RE(tok) ==
    LET at(i) == /\ AllDigits(SubSeq(tok, i, i + 3)) /\ Ch(tok, i + 4) = "-"
                 /\ AllDigits(SubSeq(tok, i + 5, i + 6)) /\ Ch(tok, i + 7) = "-"
                 /\ AllDigits(SubSeq(tok, i + 8, i + 9))
        hits == {i \in 1..(Len(tok) - 9) : at(i)}
    IN  IF hits = {} THEN ""
        ELSE LET i == CHOOSE h \in hits : \A g \in hits : h <= g IN SubSeq(tok, i, i + 9)

\* \bERROR\b, re.I
ERROR_RE(tok) == IF Upper(WordCore(tok)) = "ERROR" THEN WordCore(tok) ELSE ""

\* RE.search(line): the match in the leftmost matching token, "" for no match
Search(RE(_), line) ==
    LET hits == {i \in DOMAIN line : RE(line[i]) # ""}
    IN  IF hits = {} THEN ""
        ELSE RE(line[CHOOSE h \in hits : \A g \in hits : h <= g])

-----------------------------------------------------------------------------
(***************************************************************************)
(* log_Analyzer.worker_entry: the summary of one chunk (lines 19-53), and  *)
(* LogAnalyzer._merge.                                                     *)
(***************************************************************************)
\* the four searches worker_entry makes on one line
line_matches(line) ==
    [m |-> Search(LEVEL_RE, line),
     im |-> Search(IP_RE, line),
     err |-> Search(ERROR_RE, line),
     dm |-> Search(DATE_DAY_RE, line)]

\* line_matches of every line of LinePool as the producer reads it, computed once
LineMatches ==
    {<<ReadLine(LinePool[i]), line_matches(ReadLine(LinePool[i]))>> : i \in DOMAIN LinePool}

MatchesOf(line) ==
    IF \E p \in LineMatches : p[1] = line
    THEN (CHOOSE p \in LineMatches : p[1] = line)[2]
    ELSE line_matches(line)

\* m.group(1).upper(), with a WARN... spelling turned into WARNING
NormLevel(m) ==
    IF Len(m) >= 4 /\ Upper(SubSeq(m, 1, 4)) = "WARN" THEN "WARNING" ELSE Upper(m)

\* one iteration of "for line in chunk"
worker_line(st, line) ==
    LET r == MatchesOf(line)
        st0 == [st EXCEPT !.total_lines = @ + 1]
        lvl == NormLevel(r.m)
        st1 == IF r.m # ""
               THEN [st0 EXCEPT !.by_level = DictAdd(@, lvl, 1)]
               ELSE st0
        st2 == IF r.im # ""
               THEN [st1 EXCEPT !.ip_counts = DictAdd(@, r.im, 1)]
               ELSE st1
        st3 == IF r.err # "" /\ r.dm # ""
               THEN [st2 EXCEPT !.errors_by_day = DictAdd(@, r.dm, 1)]
               ELSE st2
    IN  IF line = <<>> THEN st0
        ELSE IF r.m # "" /\ ~DictHas(st.by_level, lvl) THEN st0
        ELSE st3

RECURSIVE worker_lines(_, _)
worker_lines(st, chunk) ==
    IF chunk = <<>> THEN st ELSE worker_lines(worker_line(st, Head(chunk)), Tail(chunk))

\* lines 20-23: the counters worker_entry starts a chunk with
NewSummary ==
    [total_lines |-> 0,
     by_level |-> <<<<"INFO", 0>>, <<"WARNING", 0>>, <<"ERROR", 0>>>>,
     ip_counts |-> EmptyDict,
     errors_by_day |-> EmptyDict]

worker_summary(chunk) == worker_lines(NewSummary, chunk)

\* the chunks a file of the text can be cut into, as the producer reads them
TextChunks ==
    {[j \in 1..k |-> ReadLine(LinePool[Layout[((o + j - 1) % Len(Layout)) + 1]])] :
        o \in 0..(Len(Layout) - 1), k \in 1..MaxChunk}

\* worker_summary of every such chunk, computed once
Summaries == {<<ch, worker_lines(NewSummary, ch)>> : ch \in TextChunks}

SummaryOf(ch) ==
    IF \E p \in Summaries : p[1] = ch
    THEN (CHOOSE p \in Summaries : p[1] = ch)[2]
    ELSE worker_summary(ch)

\* sorted(items, key=lambda x: x[1], reverse=True): stable, ties keep dict order
RECURSIVE SortedByCountDesc(_)
SortedByCountDesc(items) ==
    IF items = <<>> THEN <<>>
    ELSE LET i == CHOOSE a \in DOMAIN items :
                     /\ \A b \in DOMAIN items : items[a][2] >= items[b][2]
                     /\ \A b \in 1..(a - 1) : items[b][2] < items[a][2]
         IN  <<items[i]>> \o
             SortedByCountDesc(SubSeq(items, 1, i - 1) \o SubSeq(items, i + 1, Len(items)))

\* for k in levels.keys(): levels[k] += p.get("by_level", {}).get(k, 0)
merge_levels(levels, by_level) ==
    [i \in DOMAIN levels |-> <<levels[i][1], levels[i][2] + DictGet(by_level, levels[i][1], 0)>>]

\* faulty variant: the running total is assigned, not added to
merge_part_assign(acc, p) ==
    [total |-> p.total_lines,
     levels |-> merge_levels(acc.levels, p.by_level),
     ips |-> DictMerge(acc.ips, p.ip_counts),
     errors_by_day |-> DictMerge(acc.errors_by_day, p.errors_by_day)]

merge_part(acc, p) ==
    [total |-> acc.total + p.total_lines,
     levels |-> merge_levels(acc.levels, p.by_level),
     ips |-> DictMerge(acc.ips, p.ip_counts),
     errors_by_day |-> DictMerge(acc.errors_by_day, p.errors_by_day)]

RECURSIVE merge_parts(_, _)
merge_parts(acc, parts) ==
    IF parts = <<>> THEN acc ELSE merge_parts(merge_part(acc, Head(parts)), Tail(parts))

_merge(parts) ==
    LET acc == merge_parts([total |-> 0,
                            levels |-> <<<<"INFO", 0>>, <<"WARNING", 0>>, <<"ERROR", 0>>>>,
                            ips |-> EmptyDict,
                            errors_by_day |-> EmptyDict], parts)
        ranked == SortedByCountDesc(acc.ips)
    IN  [lines_total |-> acc.total,
         by_level |-> acc.levels,
         top_10_ips |-> [i \in 1..Min2(TopN, Len(ranked)) |->
                            [ip |-> ranked[i][1], count |-> ranked[i][2]]],
         ip_counts |-> acc.ips,
         errors_by_day |-> acc.errors_by_day]

-----------------------------------------------------------------------------
(***************************************************************************)
(* State.                                                                  *)
(*                                                                         *)
(* The log directory: fs[n] is the entry named n (names are numbered in    *)
(* their lexicographic order), with matched = the name matches a pattern   *)
(* and is a regular file, and lines = the file's lines.                    *)
(***************************************************************************)
VARIABLES
    fs,               \* the log directory
    lines_per_chunk,  \* self.lines_per_chunk
    workers,          \* self.workers
    pc,               \* where LogAnalyzer.analyze is
    fnames,           \* sorted(os.listdir(self.log_dir))
    fidx,             \* position of the for loop in fnames
    pos,              \* lines of the open file already read
    files,            \* files
    chunks_sent,      \* chunks_sent
    nsent,            \* sentinels put so far
    task_q,           \* task_q, a FIFO of at most workers * 4 tasks
    wpc,              \* where each worker_entry process is
    wchunk,           \* the chunk each worker holds
    wbuf,             \* result_q: each worker's items not yet written to the pipe
    result_q,         \* result_q: the items the collector can read
    partials,         \* partials
    alive,            \* alive
    enq,              \* history: everything put on task_q, in order
    deq,              \* history: how often each chunk was dequeued
    pub,              \* history: how many results were put for each chunk
    g_pc,             \* where the generator iter_chunks_from_dir is
    paths,            \* list_log_files(): the matching files, sorted
    gi,               \* position of "for p in files" in paths
    gpos,             \* lines of the open file already read
    g_chunk,          \* chunk_file_lines: chunk
    g_idx,            \* chunk_file_lines: idx
    item,             \* the tuple the generator last yielded
    yielded,          \* history: every tuple yielded, in order
    run_acc,          \* run_sequential_from_dir: acc
    total_chunks,     \* run_sequential_from_dir: total_chunks
    m_parts,          \* the partial results to fold
    m_left,           \* the positions of m_parts not merged yet
    pm_pc,            \* where ParallelManager.run is
    max_workers,      \* ParallelManager.max_workers
    processes,        \* ParallelManager.processes: the state of each process started
    pm_exc,           \* the exception run() ended with, "" for none
    results,          \* ParallelManager.results
    s_lines,          \* a chunk given to both summarizers
    s_apos,           \* analyze_chunk: lines of the chunk already counted
    s_an,             \* analyze_chunk: its running counters
    s_wpos,           \* worker_entry: lines of the chunk already counted
    s_wk,             \* worker_entry: its running counters
    wl_pc,            \* where processor.worker_loop is
    wl_task,          \* worker_loop: task
    stop_on_exception,\* worker_loop: stop_on_exception
    wl_hist,          \* history: every task dequeued, with what was put for it
    wl_left,          \* history: the statement that left the loop, "" while in it
    unreadable,       \* the files of the directory whose open raises
    arg_lines_per_chunk, \* the lines_per_chunk the constructor was given
    arg_workers,      \* the workers (LogAnalyzer) or max_workers (ParallelManager) given
    monitor,          \* self.monitor
    mon_pc,           \* where the monitor thread is: none, check, sample, sleep, exited
    mon_run,          \* stop["run"], the flag the monitor thread loops on
    mon_late,         \* a sampling iteration was begun after the flag was cleared
    seq_failed        \* the chunks, numbered as yielded, whose analyze_chunk raised

inVars == <<fs, lines_per_chunk, workers>>

prodVars == <<pc, fnames, fidx, pos, files, chunks_sent, nsent>>

workVars == <<wpc, wchunk, wbuf>>

collVars == <<partials, alive>>

histVars == <<enq, deq, pub>>

genVars == <<g_pc, paths, gi, gpos, g_chunk, g_idx, item, yielded>>

seqVars == <<run_acc, total_chunks>>

mergeVars == <<m_parts, m_left>>

pmVars == <<pm_pc, max_workers, processes, pm_exc, results>>

sumVars == <<s_lines, s_apos, s_an, s_wpos, s_wk>>

wlVars == <<wl_pc, wl_task, stop_on_exception, wl_hist, wl_left>>

\* what only the sections further down touch
faultVars == <<unreadable, seq_failed>>

cfgVars == <<arg_lines_per_chunk, arg_workers>>

monVars == <<monitor, mon_pc, mon_run, mon_late>>

auxVars == <<sumVars, wlVars, faultVars, cfgVars, monVars>>

notMon == <<sumVars, wlVars, faultVars, cfgVars>>

\* the variables of LogAnalyzer, of the generator, of the fold and of ParallelManager
coreVars == <<inVars, prodVars, task_q, workVars, result_q, collVars, histVars,
              genVars, seqVars, mergeVars, pmVars>>

\* what the summarizers' section leaves alone
notSum == <<wlVars, faultVars, cfgVars, monVars>>

\* what worker_loop's section leaves alone
notWL == <<sumVars, faultVars, cfgVars, monVars>>

\* what LogAnalyzer.analyze and worker_entry never touch
extVars == <<genVars, seqVars, mergeVars, pmVars>>

vars == <<inVars, auxVars, prodVars, task_q, workVars, result_q, collVars, histVars, extVars>>

-----------------------------------------------------------------------------
(***************************************************************************)
(* Directories.                                                            *)
(***************************************************************************)
FileOf(n, k, s) == [matched |-> TRUE, lines |-> [j \in 1..k |-> LineAt(n, j, s)]]

NoMatch == [matched |-> FALSE, lines |-> <<>>]

TotalLines(d) == SumSeq([n \in DOMAIN d |-> IF d[n].matched THEN Len(d[n].lines) ELSE 0])

\* every directory of at most MaxFiles entries and at most MaxLines lines
DirsAt(s) ==
    UNION {{d \in [1..nf -> {NoMatch} \cup {FileOf(n, k, s) : n \in 1..nf, k \in 0..MaxLines}] :
               /\ \A n \in 1..nf : d[n].matched => d[n] = FileOf(n, Len(d[n].lines), s)
               /\ TotalLines(d) <= MaxLines} : nf \in 0..MaxFiles}

Dirs == DirsAt(0)

\* faulty variant: the names are taken in the order listdir gave them
Sorted_asListed(names) == names

\* sorted(names): ascending
RECURSIVE Sorted(_)
Sorted(names) ==
    IF names = <<>> THEN <<>>
    ELSE LET i == CHOOSE a \in DOMAIN names : \A b \in DOMAIN names : names[a] <= names[b]
         IN  <<names[i]>> \o Sorted(SubSeq(names, 1, i - 1) \o SubSeq(names, i + 1, Len(names)))

-----------------------------------------------------------------------------
(***************************************************************************)
(* LogAnalyzer.__init__ and LogAnalyzer.analyze.                           *)
(***************************************************************************)
NoneTask == [kind |-> "None", id |-> 0, fname |-> 0, idx |-> 0, lines |-> <<>>]

Workers == 1..workers

\* ctx.Queue(maxsize=self.workers * 4)
MaxSize == workers * QueueFactor

\* self.lines_per_chunk = max(1, int(lines_per_chunk)); self.workers likewise
ClampArg(v) == Max2(1, v)

\* the generator, the sequential run, the fold and the manager before they start
GenIdle ==
    /\ g_pc = "idle"
    /\ paths = <<>>
    /\ gi = 1
    /\ gpos = 0
    /\ g_chunk = <<>>
    /\ g_idx = 0
    /\ item = None
    /\ yielded = <<>>

SeqIdle == run_acc = EmptyAcc /\ total_chunks = 0

MergeIdle == m_parts = <<>> /\ m_left = {}

PMIdle ==
    /\ pm_pc = "idle"
    /\ max_workers = 0
    /\ processes = <<>>
    /\ pm_exc = ""
    /\ results = <<>>

\* the counters analyze_chunk starts with (lines 59-62)
NewCounters ==
    [lines_total |-> 0, by_level |-> EmptyDict, top_ips |-> EmptyDict,
     errors_by_hour |-> EmptyDict]

SumIdle ==
    /\ s_lines = <<>>
    /\ s_apos = 0
    /\ s_an = NewCounters
    /\ s_wpos = 0
    /\ s_wk = NewSummary

\* the task None
WLNone == [shape |-> "None", file |-> "", chunk_index |-> 0, lines |-> <<>>]

WLIdle ==
    /\ wl_pc = "idle"
    /\ wl_task = WLNone
    /\ stop_on_exception = FALSE
    /\ wl_hist = <<>>
    /\ wl_left = ""

\* every file can be opened
FaultIdle == unreadable = {} /\ seq_failed = {}

\* the arguments given are not looked at
CfgIdle == arg_lines_per_chunk = 0 /\ arg_workers = 0

\* no monitor thread: LogAnalyzer(..., monitor=False), or a run of another entry point
MonIdle == monitor = FALSE /\ mon_pc = "none" /\ mon_run = FALSE /\ mon_late = FALSE

Plain == FaultIdle /\ CfgIdle /\ MonIdle

AuxIdle == SumIdle /\ WLIdle

\* analyze before it starts
PipeIdle ==
    /\ fnames = <<>>
    /\ fidx = 1
    /\ pos = 0
    /\ files = 0
    /\ chunks_sent = 0
    /\ nsent = 0
    /\ partials = <<>>
    /\ alive = 0
    /\ enq = <<>>
    /\ deq = <<>>
    /\ pub = <<>>

QueuesIdle(n) ==
    /\ task_q = <<>>
    /\ result_q = <<>>
    /\ wpc = [w \in 1..n |-> "new"]
    /\ wchunk = [w \in 1..n |-> NoneTask]
    /\ wbuf = [w \in 1..n |-> <<>>]

\* LogAnalyzer(...) constructed, analyze() not yet called
InitAnalyze ==
    /\ AuxIdle
    /\ fs \in Dirs
    /\ lines_per_chunk \in {ClampArg(c) : c \in 0..MaxChunk}
    /\ workers \in {ClampArg(w) : w \in 0..MaxWorkers}
    /\ workers * TotalLines(fs) <= MaxLoad
    /\ pc = "start"
    /\ PipeIdle
    /\ QueuesIdle(workers)
    /\ GenIdle /\ SeqIdle /\ MergeIdle /\ PMIdle

Init == InitAnalyze /\ Plain

\* lines 128-165: the queues are created and every worker process is started;
\* with self.monitor, _start_monitor (lines 82-124) creates the flag and starts
\* the monitor thread
StartWorkers ==
    /\ pc = "start"
    /\ wpc' = [w \in Workers |-> "get"]
    /\ pc' = "listdir"
    /\ IF monitor
       THEN mon_pc' = "check" /\ mon_run' = TRUE
       ELSE UNCHANGED <<mon_pc, mon_run>>
    /\ UNCHANGED <<extVars, inVars, notMon, monitor, mon_late, fnames, fidx, pos, files, chunks_sent, nsent, task_q,
                   wchunk, wbuf, result_q, collVars, histVars>>

\* line 169: os.listdir returns the names in any order; the loop runs over them sorted
ListDir ==
    /\ pc = "listdir"
    /\ \E order \in Perms(DOMAIN fs) : fnames' = Sorted(order)
    /\ fidx' = 1
    /\ pc' = "next_file"
    /\ UNCHANGED <<extVars, inVars, auxVars, pos, files, chunks_sent, nsent, task_q, workVars,
                   result_q, collVars, histVars>>

\* lines 169-177: the next name; one that matches no pattern or is no file is skipped;
\* lines 175-177, 190-191: open raises, the exception is logged, the loop goes on
NextFile ==
    /\ pc = "next_file"
    /\ IF fidx > Len(fnames)
       THEN /\ pc' = "sentinels"
            /\ UNCHANGED <<fidx, pos, files>>
       ELSE IF ~fs[fnames[fidx]].matched
       THEN /\ fidx' = fidx + 1
            /\ UNCHANGED <<pc, pos, files>>
       ELSE IF fnames[fidx] \in unreadable
       THEN /\ files' = files + 1
            /\ fidx' = fidx + 1
            /\ UNCHANGED <<pc, pos>>
       ELSE /\ files' = files + 1
            /\ pos' = 0
            /\ pc' = "read"
            /\ UNCHANGED fidx
    /\ UNCHANGED <<extVars, inVars, auxVars, fnames, chunks_sent, nsent, task_q, workVars,
                   result_q, collVars, histVars>>

\* lines 178-181: the buffer the read loop has when it next reaches a put, or at
\* the end of the file: lines are appended until len(buf) >= lines_per_chunk
RECURSIVE ReadBuf(_, _, _, _)
ReadBuf(lines, at, buf, c) ==
    IF at >= Len(lines) \/ Len(buf) >= c THEN buf
    ELSE ReadBuf(lines, at + 1, Append(buf, ReadLine(lines[at + 1])), c)

\* faulty variant: the put never waits
PutChunk_noWait ==
    /\ pc = "read"
    /\ LET buf == ReadBuf(fs[fnames[fidx]].lines, pos, <<>>, lines_per_chunk)
           task == [kind |-> "chunk", id |-> chunks_sent + 1, fname |-> fnames[fidx],
                    idx |-> pos \div lines_per_chunk, lines |-> buf]
       IN  /\ buf # <<>>
           /\ task_q' = Append(task_q, task)
           /\ chunks_sent' = chunks_sent + 1
           /\ pos' = pos + Len(buf)
           /\ enq' = Append(enq, task)
           /\ deq' = Append(deq, 0)
           /\ pub' = Append(pub, 0)
    /\ UNCHANGED <<extVars, inVars, auxVars, pc, fnames, fidx, files, nsent, workVars, result_q, collVars>>

\* lines 179-189: a full buffer, or the rest of the file, is put on the task queue;
\* the put waits while the queue holds maxsize items
PutChunk ==
    /\ pc = "read"
    /\ LET buf == ReadBuf(fs[fnames[fidx]].lines, pos, <<>>, lines_per_chunk)
           task == [kind |-> "chunk", id |-> chunks_sent + 1, fname |-> fnames[fidx],
                    idx |-> pos \div lines_per_chunk, lines |-> buf]
       IN  /\ buf # <<>>
           /\ Len(task_q) < MaxSize
           /\ task_q' = Append(task_q, task)
           /\ chunks_sent' = chunks_sent + 1
           /\ pos' = pos + Len(buf)
           /\ enq' = Append(enq, task)
           /\ deq' = Append(deq, 0)
           /\ pub' = Append(pub, 0)
    /\ UNCHANGED <<extVars, inVars, auxVars, pc, fnames, fidx, files, nsent, workVars, result_q, collVars>>

\* lines 187, 169: the file is exhausted and the buffer is empty
EndFile ==
    /\ pc = "read"
    /\ ReadBuf(fs[fnames[fidx]].lines, pos, <<>>, lines_per_chunk) = <<>>
    /\ fidx' = fidx + 1
    /\ pc' = "next_file"
    /\ UNCHANGED <<extVars, inVars, auxVars, fnames, pos, files, chunks_sent, nsent, task_q, workVars,
                   result_q, collVars, histVars>>

\* faulty variant: one sentinel too few
PutSentinel_oneShort ==
    /\ pc = "sentinels"
    /\ IF nsent < workers - 1
       THEN /\ Len(task_q) < MaxSize
            /\ task_q' = Append(task_q, NoneTask)
            /\ nsent' = nsent + 1
            /\ enq' = Append(enq, NoneTask)
            /\ UNCHANGED <<pc, alive>>
       ELSE /\ pc' = "collect"
            /\ alive' = workers
            /\ UNCHANGED <<task_q, nsent, enq>>
    /\ UNCHANGED <<extVars, inVars, auxVars, fnames, fidx, pos, files, chunks_sent, workVars, result_q,
                   partials, deq, pub>>

\* lines 194-199: one None per worker, then the collector starts
PutSentinel ==
    /\ pc = "sentinels"
    /\ IF nsent < workers
       THEN /\ Len(task_q) < MaxSize
            /\ task_q' = Append(task_q, NoneTask)
            /\ nsent' = nsent + 1
            /\ enq' = Append(enq, NoneTask)
            /\ UNCHANGED <<pc, alive>>
       ELSE /\ pc' = "collect"
            /\ alive' = workers
            /\ UNCHANGED <<task_q, nsent, enq>>
    /\ UNCHANGED <<extVars, inVars, auxVars, fnames, fidx, pos, files, chunks_sent, workVars, result_q,
                   partials, deq, pub>>

\* lines 200-203: result_q.get(timeout=1.0) returns an item
CollectGet ==
    /\ pc = "collect"
    /\ alive > 0
    /\ result_q # <<>>
    /\ partials' = Append(partials, Head(result_q))
    /\ result_q' = Tail(result_q)
    /\ UNCHANGED <<extVars, inVars, auxVars, prodVars, task_q, workVars, alive, histVars>>

\* line 204: the get times out on an empty queue
CollectEmpty ==
    /\ pc = "collect"
    /\ alive > 0
    /\ result_q = <<>>
    /\ pc' = "poll"
    /\ UNCHANGED <<extVars, inVars, auxVars, fnames, fidx, pos, files, chunks_sent, nsent, task_q,
                   workVars, result_q, collVars, histVars>>

\* line 205: alive = sum(1 for p in workers if p.is_alive())
CollectPoll ==
    /\ pc = "poll"
    /\ alive' = Cardinality({w \in Workers : wpc[w] # "dead"})
    /\ pc' = "collect"
    /\ UNCHANGED <<extVars, inVars, auxVars, fnames, fidx, pos, files, chunks_sent, nsent, task_q,
                   workVars, result_q, partials, histVars>>

\* lines 200, 207-209: the loop ends on alive = 0; get_nowait returns an item
DrainGet ==
    /\ pc = "collect"
    /\ alive = 0
    /\ result_q # <<>>
    /\ partials' = Append(partials, Head(result_q))
    /\ result_q' = Tail(result_q)
    /\ UNCHANGED <<extVars, inVars, auxVars, prodVars, task_q, workVars, alive, histVars>>

\* lines 210-220: get_nowait raises Empty; the workers are joined with a timeout
\* and, mon_thread being None, analyze returns
Return ==
    /\ pc = "collect"
    /\ alive = 0
    /\ result_q = <<>>
    /\ ~monitor
    /\ pc' = "done"
    /\ UNCHANGED <<extVars, inVars, auxVars, fnames, fidx, pos, files, chunks_sent, nsent, task_q,
                   workVars, result_q, partials, alive, histVars>>

-----------------------------------------------------------------------------
(***************************************************************************)
(* log_Analyzer.worker_entry, one process per worker.                      *)
(***************************************************************************)
\* faulty variant: the worker reads the oldest chunk and leaves it on the queue
WorkerGet_peek(w) ==
    /\ wpc[w] = "get"
    /\ task_q # <<>>
    /\ IF Head(task_q).kind = "None"
       THEN /\ wpc' = [wpc EXCEPT ![w] = "exit"]
            /\ task_q' = Tail(task_q)
            /\ UNCHANGED <<wchunk, deq>>
       ELSE /\ wpc' = [wpc EXCEPT ![w] = "work"]
            /\ wchunk' = [wchunk EXCEPT ![w] = Head(task_q)]
            /\ deq' = [deq EXCEPT ![Head(task_q).id] = @ + 1]
            /\ UNCHANGED task_q
    /\ UNCHANGED <<extVars, inVars, auxVars, prodVars, wbuf, result_q, collVars, enq, pub>>

\* faulty variant: a worker that took None goes on taking tasks
WorkerGet_goesOn(w) ==
    /\ wpc[w] = "get"
    /\ task_q # <<>>
    /\ task_q' = Tail(task_q)
    /\ IF Head(task_q).kind = "None"
       THEN UNCHANGED <<wpc, wchunk, deq>>
       ELSE /\ wpc' = [wpc EXCEPT ![w] = "work"]
            /\ wchunk' = [wchunk EXCEPT ![w] = Head(task_q)]
            /\ deq' = [deq EXCEPT ![Head(task_q).id] = @ + 1]
    /\ UNCHANGED <<extVars, inVars, auxVars, prodVars, wbuf, result_q, collVars, enq, pub>>

\* lines 16-18: task_queue.get() returns the oldest task; None ends the loop
WorkerGet(w) ==
    /\ wpc[w] = "get"
    /\ task_q # <<>>
    /\ task_q' = Tail(task_q)
    /\ IF Head(task_q).kind = "None"
       THEN /\ wpc' = [wpc EXCEPT ![w] = "exit"]
            /\ UNCHANGED <<wchunk, deq>>
       ELSE /\ wpc' = [wpc EXCEPT ![w] = "work"]
            /\ wchunk' = [wchunk EXCEPT ![w] = Head(task_q)]
            /\ deq' = [deq EXCEPT ![Head(task_q).id] = @ + 1]
    /\ UNCHANGED <<extVars, inVars, auxVars, prodVars, wbuf, result_q, collVars, enq, pub>>

\* lines 19-53: the chunk is summarised and the summary put on the result queue;
\* the put leaves the item with the queue's feeder thread
WorkerPut(w) ==
    /\ wpc[w] = "work"
    /\ wbuf' = [wbuf EXCEPT ![w] = Append(@, SummaryOf(wchunk[w].lines))]
    /\ wpc' = [wpc EXCEPT ![w] = "get"]
    /\ wchunk' = [wchunk EXCEPT ![w] = NoneTask]
    /\ pub' = [pub EXCEPT ![wchunk[w].id] = @ + 1]
    /\ UNCHANGED <<extVars, inVars, auxVars, prodVars, task_q, result_q, collVars, enq, deq>>

\* result_q's feeder thread in worker w writes the oldest buffered item to the pipe
Feed(w) ==
    /\ wbuf[w] # <<>>
    /\ result_q' = Append(result_q, Head(wbuf[w]))
    /\ wbuf' = [wbuf EXCEPT ![w] = Tail(@)]
    /\ UNCHANGED <<extVars, inVars, auxVars, prodVars, task_q, wpc, wchunk, collVars, histVars>>

\* faulty variant: the process exits at once and what its feeder thread had
\* not written yet is lost
WorkerExit_noFlush(w) ==
    /\ wpc[w] = "exit"
    /\ wpc' = [wpc EXCEPT ![w] = "dead"]
    /\ wbuf' = [wbuf EXCEPT ![w] = <<>>]
    /\ UNCHANGED <<extVars, inVars, auxVars, prodVars, task_q, wchunk, result_q, collVars, histVars>>

\* worker_entry has returned: the process exits once its feeder thread has
\* written everything (multiprocessing joins the feeder thread at exit)
WorkerExit(w) ==
    /\ wpc[w] = "exit"
    /\ wbuf[w] = <<>>
    /\ wpc' = [wpc EXCEPT ![w] = "dead"]
    /\ UNCHANGED <<extVars, inVars, auxVars, prodVars, task_q, wchunk, wbuf, result_q, collVars, histVars>>

\* the main process: the producer, then the collector
Main ==
    \/ StartWorkers \/ ListDir \/ NextFile \/ PutChunk \/ EndFile \/ PutSentinel
    \/ CollectGet \/ CollectEmpty \/ CollectPoll \/ DrainGet \/ Return

\* the main thread of worker process w
WorkerMain(w) == w \in Workers /\ (WorkerGet(w) \/ WorkerPut(w) \/ WorkerExit(w))

\* the feeder thread of worker process w
Feeder(w) == w \in Workers /\ Feed(w)

Next ==
    \/ StartWorkers \/ ListDir \/ NextFile \/ PutChunk \/ EndFile \/ PutSentinel
    \/ CollectGet \/ CollectEmpty \/ CollectPoll \/ DrainGet \/ Return
    \/ \E w \in Workers : WorkerGet(w) \/ WorkerPut(w) \/ Feed(w) \/ WorkerExit(w)

Spec == Init /\ [][Next]_vars

\* every process and thread that can run is eventually scheduled
FairSpec ==
    /\ Spec
    /\ WF_vars(Main)
    /\ \A w \in 1..MaxWorkers : WF_vars(WorkerMain(w)) /\ WF_vars(Feeder(w))

-----------------------------------------------------------------------------
(***************************************************************************)
(* What analyze produces for a directory, as a function of its input: the  *)
(* chunks of lines 169-189 in the order of the loop, and their summaries.  *)
(***************************************************************************)
\* lines 178-189: the buffers one file is cut into, from line "at" on
RECURSIVE FileChunks(_, _, _)
FileChunks(lines, at, c) ==
    LET buf == ReadBuf(lines, at, <<>>, c)
    IN  IF buf = <<>> THEN <<>> ELSE <<buf>> \o FileChunks(lines, at + Len(buf), c)

\* lines 169-189: the chunks of every matched file, files in ascending order
ProducedChunks(d, c) ==
    Flatten([n \in DOMAIN d |-> IF d[n].matched THEN FileChunks(d[n].lines, 0, c) ELSE <<>>])

\* the summaries worker_entry makes of them, in the order of production
ProducedPartials(d, c) ==
    LET chunks == ProducedChunks(d, c)
    IN  [i \in DOMAIN chunks |-> worker_summary(chunks[i])]

\* the counts of a result, dicts compared as mappings
ResultCounts(r) ==
    [lines_total |-> r.lines_total,
     by_level |-> AsMap(r.by_level),
     ip_counts |-> AsMap(r.ip_counts),
     errors_by_day |-> AsMap(r.errors_by_day)]

\* line 220: what analyze returns, once it has returned
result == _merge(partials)

AllDead == \A w \in Workers : wpc[w] = "dead"

-----------------------------------------------------------------------------
(***************************************************************************)
(* Properties of LogAnalyzer.analyze.                                      *)
(***************************************************************************)
\* C1: the lines_total analyze returns is the number of lines of all matched
\* files, whatever the chunk size, the worker count and the interleaving.
C1_Conservation == pc = "done" => result.lines_total = TotalLines(fs)

\* a run of two workers over at least three lines, one of them blank, and an empty file
C1_Witness ==
    /\ pc = "done"
    /\ workers = 2
    /\ result.lines_total >= 3
    /\ \E n \in DOMAIN fs : fs[n].matched /\ fs[n].lines = <<>>
    /\ \E n \in DOMAIN fs : \E j \in DOMAIN fs[n].lines : fs[n].lines[j] = <<>>

\* the workers holding chunk i
Holders(i) == {w \in Workers : wchunk[w].id = i}

\* C2: every chunk put on the task queue is taken by exactly one worker, which
\* puts exactly one result for it; none is summarised twice, and when analyze
\* returns none is left unprocessed.
C2_ExactlyOnce ==
    /\ Len(deq) = chunks_sent
    /\ Len(pub) = chunks_sent
    /\ \A i \in 1..chunks_sent :
          /\ deq[i] <= 1
          /\ pub[i] <= deq[i]
          /\ deq[i] = 0 <=> \E k \in DOMAIN task_q : task_q[k].id = i
          /\ Cardinality(Holders(i)) = deq[i] - pub[i]
    /\ pc = "done" => \A i \in 1..chunks_sent : deq[i] = 1 /\ pub[i] = 1

\* two workers have shared at least three chunks and analyze has returned
C2_Witness == pc = "done" /\ workers = 2 /\ chunks_sent >= 3

\* C3: under fair scheduling every worker takes a sentinel and terminates, and
\* analyze returns.
C3_Termination == <>(pc = "done" /\ AllDead)

\* one worker, more items put than the task queue holds, all done
C3_Witness == pc = "done" /\ AllDead /\ workers = 1 /\ chunks_sent + nsent > MaxSize

\* C5: the counts analyze returns are a function of the files and the chunk
\* size: the same for every interleaving and every order of arrival.
C5_SchedulingIndependence ==
    pc = "done" =>
        ResultCounts(result) = ResultCounts(_merge(ProducedPartials(fs, lines_per_chunk)))

\* the partial results reached the collector in another order than produced
C5_Witness ==
    /\ pc = "done"
    /\ workers = 2
    /\ Len(partials) >= 3
    /\ partials # ProducedPartials(fs, lines_per_chunk)

\* C10: real tasks are enqueued by ascending file name, then ascending position
\* in the file; then exactly one sentinel per worker; no real task follows a
\* sentinel, and the first sentinel follows the last real task.
C10_ProducerOrder ==
    /\ \A i, j \in DOMAIN enq :
          i < j =>
             /\ enq[i].kind = "None" => enq[j].kind = "None"
             /\ enq[i].kind = "chunk" /\ enq[j].kind = "chunk" =>
                   \/ enq[i].fname < enq[j].fname
                   \/ enq[i].fname = enq[j].fname /\ enq[i].idx < enq[j].idx
    /\ Cardinality({i \in DOMAIN enq : enq[i].kind = "None"}) = nsent
    /\ nsent <= workers
    /\ pc \in {"collect", "poll", "done"} => nsent = workers
    /\ nsent > 0 =>
          [i \in 1..(Len(enq) - nsent) |-> enq[i].lines] = ProducedChunks(fs, lines_per_chunk)

\* two files with chunks, one of them with two chunks, and two sentinels
C10_Witness ==
    /\ pc = "collect"
    /\ workers = 2
    /\ \E i, j \in DOMAIN enq : enq[i].kind = "chunk" /\ enq[j].kind = "chunk"
                                 /\ enq[i].fname < enq[j].fname
    /\ \E i \in DOMAIN enq : enq[i].kind = "chunk" /\ enq[i].idx = 1

-----------------------------------------------------------------------------
(***************************************************************************)
(* log_utils.list_log_files, chunk_file_lines and iter_chunks_from_dir:    *)
(* one generator, suspended at each yield until its consumer asks for the  *)
(* next item.                                                              *)
(***************************************************************************)
\* chunk_file_lines line 82: the chunk size for an argument that is None
\* (given = FALSE) or an integer that validate_positive_int lets through
ChunkArgs ==
    {[given |-> FALSE, value |-> 0]} \cup {[given |-> TRUE, value |-> c] : c \in 1..MaxChunk}

ChunkSize(arg) == IF arg.given THEN arg.value ELSE DEFAULT_LINES_PER_CHUNK

\* the starting points the text is read from
Shifts == 0..(Len(Layout) - 1)

\* list_log_files: glob lists the matching regular files in any order; paths.sort()
ListLogFiles ==
    /\ g_pc = "idle"
    /\ \E order \in Perms({n \in DOMAIN fs : fs[n].matched}) : paths' = Sorted(order)
    /\ gi' = 1
    /\ g_pc' = "next_file"
    /\ UNCHANGED <<gpos, g_chunk, g_idx, item, yielded>>

\* iter_chunks_from_dir line 115, chunk_file_lines lines 84-90: the next file is
\* opened, or the generator is exhausted; line 85 or open() at line 90 raises for
\* a file that cannot be read, nothing in either generator catches it, and the
\* generator is finished by the exception
GenNextFile ==
    /\ g_pc = "next_file"
    /\ IF gi > Len(paths)
       THEN /\ g_pc' = "end"
            /\ UNCHANGED <<gpos, g_chunk, g_idx>>
       ELSE IF paths[gi] \in unreadable
       THEN /\ g_pc' = "raised"
            /\ UNCHANGED <<gpos, g_chunk, g_idx>>
       ELSE /\ g_chunk' = <<>>
            /\ g_idx' = 0
            /\ gpos' = 0
            /\ g_pc' = "read"
    /\ UNCHANGED <<paths, gi, item, yielded>>

\* faulty variant: a chunk is yielded only once it holds more than lines_per_chunk lines
GenReadLine_late ==
    /\ g_pc = "read"
    /\ gpos < Len(fs[paths[gi]].lines)
    /\ LET line == ReadLine(fs[paths[gi]].lines[gpos + 1])
           grown == Append(g_chunk, RStripNL(line))
       IN  /\ g_chunk' = grown
           /\ gpos' = gpos + 1
           /\ IF Len(grown) > lines_per_chunk
              THEN /\ item' = [file |-> paths[gi], chunk_index |-> g_idx, lines |-> grown]
                   /\ yielded' = Append(yielded, item')
                   /\ g_pc' = "yielded"
              ELSE UNCHANGED <<item, yielded, g_pc>>
    /\ UNCHANGED <<paths, gi, g_idx>>

\* chunk_file_lines lines 91-95: one line is read and appended without its
\* newline; a chunk that has reached lines_per_chunk lines is yielded
GenReadLine ==
    /\ g_pc = "read"
    /\ gpos < Len(fs[paths[gi]].lines)
    /\ LET line == ReadLine(fs[paths[gi]].lines[gpos + 1])
           grown == Append(g_chunk, RStripNL(line))
       IN  /\ g_chunk' = grown
           /\ gpos' = gpos + 1
           /\ IF Len(grown) >= lines_per_chunk
              THEN /\ item' = [file |-> paths[gi], chunk_index |-> g_idx, lines |-> grown]
                   /\ yielded' = Append(yielded, item')
                   /\ g_pc' = "yielded"
              ELSE UNCHANGED <<item, yielded, g_pc>>
    /\ UNCHANGED <<paths, gi, g_idx>>

\* chunk_file_lines lines 98-100: at the end of the file a chunk with content is
\* yielded; with none the file is done
GenEndOfFile ==
    /\ g_pc = "read"
    /\ gpos = Len(fs[paths[gi]].lines)
    /\ IF g_chunk # <<>>
       THEN /\ item' = [file |-> paths[gi], chunk_index |-> g_idx, lines |-> g_chunk]
            /\ yielded' = Append(yielded, item')
            /\ g_pc' = "yielded_last"
            /\ UNCHANGED gi
       ELSE /\ gi' = gi + 1
            /\ g_pc' = "next_file"
            /\ UNCHANGED <<item, yielded>>
    /\ UNCHANGED <<paths, gpos, g_chunk, g_idx>>

\* the consumer asks for the next item: the generator goes on after its yield
\* (lines 96-97 after the yield of line 95; the end of the file after line 100)
GenResume ==
    /\ IF g_pc = "yielded"
       THEN /\ g_idx' = g_idx + 1
            /\ g_chunk' = <<>>
            /\ g_pc' = "read"
            /\ UNCHANGED gi
       ELSE /\ gi' = gi + 1
            /\ g_pc' = "next_file"
            /\ UNCHANGED <<g_idx, g_chunk>>
    /\ UNCHANGED <<paths, gpos, item, yielded>>

Suspended == g_pc \in {"yielded", "yielded_last"}

\* what the actions of the generator leave alone
genRest == <<inVars, auxVars, prodVars, task_q, workVars, result_q, collVars, histVars,
             seqVars, mergeVars, pmVars>>

-----------------------------------------------------------------------------
(***************************************************************************)
(* processor.Processor.process_chunk and processor.run_sequential_from_dir.*)
(***************************************************************************)
\* lines 49-53, 62-72: the record returned when analyze_chunk raised
process_chunk_error(file_path, chunk_index) ==
    [file |-> file_path, chunk_index |-> chunk_index, status |-> "error", result |-> None]

\* lines 49-61: the record returned when analyze_chunk returned
process_chunk(file_path, chunk_index, lines) ==
    [file |-> file_path, chunk_index |-> chunk_index, status |-> "ok",
     result |-> analyze_chunk(lines)]

\* run_sequential_from_dir(lines_per_chunk) called
InitSeqRun ==
    /\ AuxIdle
    /\ \E s \in Shifts : fs \in DirsAt(s)
    /\ lines_per_chunk \in {ChunkSize(a) : a \in ChunkArgs}
    /\ workers = 1
    /\ pc = "seq"
    /\ PipeIdle
    /\ QueuesIdle(0)
    /\ GenIdle /\ SeqIdle /\ MergeIdle /\ PMIdle

InitSeq == InitSeqRun /\ Plain

\* line 142: iter_chunks_from_dir is called and runs up to its first yield
SeqListLogFiles == pc = "seq" /\ ListLogFiles /\ UNCHANGED genRest

SeqNextFile == pc = "seq" /\ GenNextFile /\ UNCHANGED genRest

SeqReadLine == pc = "seq" /\ GenReadLine /\ UNCHANGED genRest

SeqEndOfFile == pc = "seq" /\ GenEndOfFile /\ UNCHANGED genRest

\* lines 143-149: the body of the loop on the item yielded, then the next item is asked for
SeqBody ==
    /\ pc = "seq"
    /\ Suspended
    /\ total_chunks' = total_chunks + 1
    /\ LET res_obj == process_chunk(item.file, item.chunk_index, item.lines)
       IN  IF res_obj.status = "ok"
           THEN run_acc' = merge_partial_results(run_acc, res_obj.result)
           ELSE UNCHANGED run_acc
    /\ GenResume
    /\ UNCHANGED <<inVars, auxVars, prodVars, task_q, workVars, result_q, collVars, histVars,
                   mergeVars, pmVars>>

\* lines 156-157: the generator is exhausted and acc is returned
SeqReturn ==
    /\ pc = "seq"
    /\ g_pc = "end"
    /\ pc' = "seq_done"
    /\ UNCHANGED <<inVars, auxVars, fnames, fidx, pos, files, chunks_sent, nsent, task_q, workVars,
                   result_q, collVars, histVars, extVars>>

NextSeq ==
    \/ SeqListLogFiles \/ SeqNextFile \/ SeqReadLine \/ SeqEndOfFile \/ SeqBody \/ SeqReturn

SpecSeq == InitSeq /\ [][NextSeq]_vars

\* line 142: the for statement is outside every try of run_sequential_from_dir, so
\* an exception of the generator ends the run
SeqRaise ==
    /\ pc = "seq"
    /\ g_pc = "raised"
    /\ pc' = "seq_raised"
    /\ UNCHANGED <<inVars, auxVars, fnames, fidx, pos, files, chunks_sent, nsent, task_q, workVars,
                   result_q, collVars, histVars, extVars>>

-----------------------------------------------------------------------------
(***************************************************************************)
(* Properties of the chunking and of the sequential fold.                  *)
(***************************************************************************)
CeilDiv(a, b) == (a + b - 1) \div b

\* the law of C9 for the chunks chs cut from the line sequence text with size c
ChunkingLaw(chs, text, c) ==
    /\ Len(chs) = CeilDiv(Len(text), c)
    /\ \A i \in DOMAIN chs :
          /\ Len(chs[i]) >= 1
          /\ Len(chs[i]) <= c
          /\ i < Len(chs) => Len(chs[i]) = c
    /\ Flatten(chs) = text

\* the items yielded so far for file n, in the order of the yields
YieldedOf(n) ==
    LET OfFile(y) == y.file = n
    IN  SelectSeq(yielded, OfFile)

\* the generator has left file n behind
FileDone(n) == g_pc = "end" \/ \E k \in DOMAIN paths : paths[k] = n /\ k < gi

\* the accumulator with its dicts as mappings
AccCounts(a) == [k \in DOMAIN a |-> IF k = "lines_total" THEN a[k] ELSE AsMap(a[k])]

\* chunk_file_lines as a function: the chunks of a file's lines for chunk size c
RECURSIVE chunk_lines(_, _)
chunk_lines(lines, c) ==
    IF lines = <<>> THEN <<>>
    ELSE LET k == Min2(c, Len(lines))
         IN  <<[j \in 1..k |-> RStripNL(ReadLine(lines[j]))]>>
             \o chunk_lines(SubSeq(lines, k + 1, Len(lines)), c)

RECURSIVE FoldParts(_, _)
FoldParts(a, parts) ==
    IF parts = <<>> THEN a
    ELSE FoldParts(merge_partial_results(a, Head(parts)), Tail(parts))

\* the accumulator of a sequential run over directory d with chunk size c
SeqFold(d, c) ==
    LET chunks == Flatten([n \in DOMAIN d |->
                              IF d[n].matched THEN chunk_lines(d[n].lines, c) ELSE <<>>])
    IN  FoldParts(EmptyAcc, [i \in DOMAIN chunks |-> analyze_chunk(chunks[i])])

\* the chunk sizes a run is compared with
OtherSizes == 1..(MaxLines + 1)

\* C8: the accumulator run_sequential_from_dir returns is the one that
\* chunking the same lines with any other chunk size, summarising each chunk
\* with analyze_chunk and folding with merge_partial_results gives.
C8_IdempotentChunking ==
    pc = "seq_done" =>
        \A c2 \in OtherSizes : AccCounts(run_acc) = AccCounts(SeqFold(fs, c2))

\* a run over several chunks of two lines in which one address was counted in two chunks
C8_Witness ==
    /\ pc = "seq_done"
    /\ lines_per_chunk = 2
    /\ total_chunks >= 2
    /\ run_acc.lines_total >= 3
    /\ \E i, j \in DOMAIN yielded :
          /\ i < j
          /\ \E k \in DictKeys(analyze_chunk(yielded[i].lines).top_ips) :
                DictHas(analyze_chunk(yielded[j].lines).top_ips, k)

\* C9: a file of L lines is cut into ceil(L/c) chunks with indices 0, 1, 2, ...
\* in ascending order, all of c lines but the last, which has from 1 to c; no
\* chunk is empty and the chunks in order make up the file's lines.  For
\* chunk_file_lines this is stated on what it has yielded, while it runs and
\* when the file is done; for analyze's read loop on the chunks it cuts.
C9_Chunking ==
    \A n \in DOMAIN fs :
       fs[n].matched =>
          LET ys == YieldedOf(n)
              chs == [i \in DOMAIN ys |-> ys[i].lines]
              text == [j \in DOMAIN fs[n].lines |-> RStripNL(ReadLine(fs[n].lines[j]))]
              c == lines_per_chunk
          IN  /\ \A i \in DOMAIN ys : ys[i].chunk_index = i - 1
              /\ IF FileDone(n)
                 THEN ChunkingLaw(chs, text, c)
                 ELSE /\ \A i \in DOMAIN chs : Len(chs[i]) >= 1 /\ Len(chs[i]) <= c
                      /\ \A i \in DOMAIN chs : i < Len(chs) => Len(chs[i]) = c
                      /\ Len(Flatten(chs)) <= Len(text)
                      /\ Flatten(chs) = SubSeq(text, 1, Len(Flatten(chs)))
              /\ ChunkingLaw(FileChunks(fs[n].lines, 0, c),
                             [j \in DOMAIN fs[n].lines |-> ReadLine(fs[n].lines[j])], c)

\* a file of three lines cut into a chunk of two and a chunk of one, and an empty file
C9_Witness ==
    /\ g_pc = "end"
    /\ lines_per_chunk = 2
    /\ \E n \in DOMAIN fs : fs[n].matched /\ Len(fs[n].lines) = 3 /\ Len(YieldedOf(n)) = 2
    /\ \E n \in DOMAIN fs : fs[n].matched /\ fs[n].lines = <<>> /\ YieldedOf(n) = <<>>

-----------------------------------------------------------------------------
(***************************************************************************)
(* analysis.merge_partial_results folded over the partial results of a     *)
(* directory's chunks, taken in any order.                                 *)
(***************************************************************************)
\* analyze_chunk of every chunk of directory d cut with chunk size c
PartialsOf(d, c) ==
    LET chunks == Flatten([n \in DOMAIN d |->
                              IF d[n].matched THEN chunk_lines(d[n].lines, c) ELSE <<>>])
    IN  [i \in DOMAIN chunks |-> analyze_chunk(chunks[i])]

InitMerge ==
    /\ AuxIdle /\ Plain
    /\ \E s \in Shifts : fs \in DirsAt(s)
    /\ lines_per_chunk \in 1..MaxChunk
    /\ workers = 1
    /\ pc = "merge"
    /\ PipeIdle
    /\ QueuesIdle(0)
    /\ GenIdle /\ PMIdle
    /\ run_acc = EmptyAcc
    /\ total_chunks = 0
    /\ m_parts = PartialsOf(fs, lines_per_chunk)
    /\ m_left = DOMAIN m_parts

\* acc = merge_partial_results(acc, part) for any part not merged yet
MergeOne ==
    /\ pc = "merge"
    /\ \E i \in m_left :
          /\ run_acc' = merge_partial_results(run_acc, m_parts[i])
          /\ m_left' = m_left \ {i}
    /\ UNCHANGED <<inVars, auxVars, prodVars, task_q, workVars, result_q, collVars, histVars,
                   genVars, total_chunks, m_parts, pmVars>>

NextMerge == MergeOne

SpecMerge == InitMerge /\ [][NextMerge]_vars

\* the positions of the partials merged so far
Merged == DOMAIN m_parts \ m_left

\* the sum of the values of a function with a finite domain
RECURSIVE SumFn(_)
SumFn(f) ==
    IF DOMAIN f = {} THEN 0
    ELSE LET x == CHOOSE y \in DOMAIN f : TRUE
         IN  f[x] + SumFn([z \in DOMAIN f \ {x} |-> f[z]])

\* the sum, over the partials merged, of the count of key k in the dict named field
KeySum(field, k) ==
    SumFn([i \in Merged |-> DictGet(m_parts[i][field], k, 0)])

MergedKeys(field) == UNION {DictKeys(m_parts[i][field]) : i \in Merged}

\* C6: folding the same partial results in any order gives the same
\* accumulator: lines_total and the mappings by_level, top_ips, errors_by_hour.
C6_MergeOrder ==
    m_left = {} => AccCounts(run_acc) = AccCounts(FoldParts(EmptyAcc, m_parts))

\* three or more partials were folded in another order than they were produced
C6_Witness ==
    /\ m_left = {}
    /\ Len(m_parts) >= 3
    /\ run_acc # FoldParts(EmptyAcc, m_parts)

\* C7: after any merges, lines_total is the sum of the lines_total of the
\* partials merged, and each dict holds exactly the keys of those partials,
\* each with the sum of its counts.
C7_MergeIsSum ==
    IF Merged = {} THEN run_acc = EmptyAcc
    ELSE /\ DOMAIN run_acc = {"lines_total", "by_level", "top_ips", "errors_by_hour"}
         /\ run_acc.lines_total = SumFn([i \in Merged |-> m_parts[i].lines_total])
         /\ \A field \in {"by_level", "top_ips", "errors_by_hour"} :
               /\ DictKeys(run_acc[field]) = MergedKeys(field)
               /\ Len(run_acc[field]) = Cardinality(MergedKeys(field))
               /\ \A k \in MergedKeys(field) :
                     DictGet(run_acc[field], k, 0) = KeySum(field, k)

\* two partials merged that share an address, and one merged without it
C7_Witness ==
    /\ Cardinality(Merged) >= 3
    /\ \E i, j, l \in Merged : \E k \in DictKeys(m_parts[i].top_ips) :
          /\ i # j
          /\ DictHas(m_parts[j].top_ips, k)
          /\ ~DictHas(m_parts[l].top_ips, k)
          /\ DictGet(run_acc.top_ips, k, 0) >= 2

-----------------------------------------------------------------------------
(***************************************************************************)
(* parallel_manager.ParallelManager.  Its task queue is unbounded.  The    *)
(* class Processor (processor.py lines 22-72) has the methods __init__ and *)
(* process_chunk only: worker_loop is a function of the module, so the     *)
(* expression Processor.worker_loop of line 44 raises AttributeError the   *)
(* first time the loop of _start_workers comes to it.                      *)
(***************************************************************************)
\* lines 33-34: "value or default": None and 0 give the default
OrDefault(v, dflt) == IF v = 0 THEN dflt ELSE v

\* the max_workers the constructor is given: none, a count, or a negative number
WorkerArgs == (0 - 1)..MaxWorkers

\* ParallelManager(...) constructed, run() not yet called
InitPMRun ==
    /\ AuxIdle /\ FaultIdle
    /\ fs \in Dirs
    /\ lines_per_chunk \in {OrDefault(a, DEFAULT_LINES_PER_CHUNK) : a \in 0..MaxChunk}
    /\ max_workers \in {OrDefault(a, DEFAULT_MAX_WORKERS) : a \in WorkerArgs}
    /\ workers = 1
    /\ pc = "pm"
    /\ PipeIdle
    /\ QueuesIdle(0)
    /\ GenIdle /\ SeqIdle /\ MergeIdle
    /\ pm_pc = "start"
    /\ processes = <<>>
    /\ pm_exc = ""
    /\ results = <<>>

InitPM == InitPMRun /\ CfgIdle /\ MonIdle

\* what the generator's steps leave alone when run() drives it
pmGenRest == <<inVars, auxVars, prodVars, task_q, workVars, result_q, collVars, histVars,
               seqVars, mergeVars, pmVars>>

AnyAlive == \E i \in DOMAIN processes : processes[i] = "alive"

\* lines 87, 41-48: range(max_workers) is empty for a count below 1; otherwise
\* the first Process(target=Processor.worker_loop, ...) raises AttributeError
\* before any process is created, and run() ends with it
PMStartWorkers ==
    /\ pm_pc = "start"
    /\ IF max_workers >= 1
       THEN /\ pm_pc' = "raised"
            /\ pm_exc' = "AttributeError"
       ELSE /\ pm_pc' = "enqueue"
            /\ UNCHANGED pm_exc
    /\ UNCHANGED <<inVars, auxVars, prodVars, task_q, workVars, result_q, collVars, histVars,
                   genVars, seqVars, mergeVars, max_workers, processes, results>>

\* lines 88, 58-61: _enqueue_tasks runs the generator
PMListLogFiles == pm_pc = "enqueue" /\ ListLogFiles /\ UNCHANGED pmGenRest

PMNextFile == pm_pc = "enqueue" /\ GenNextFile /\ UNCHANGED pmGenRest

PMReadLine == pm_pc = "enqueue" /\ GenReadLine /\ UNCHANGED pmGenRest

PMEndOfFile == pm_pc = "enqueue" /\ GenEndOfFile /\ UNCHANGED pmGenRest

\* line 61: the item yielded is put on the task queue and the next one asked for
PMPutTask ==
    /\ pm_pc = "enqueue"
    /\ Suspended
    /\ task_q' = Append(task_q, item)
    /\ GenResume
    /\ UNCHANGED <<inVars, auxVars, prodVars, workVars, result_q, collVars, histVars,
                   seqVars, mergeVars, pmVars>>

\* the generator is exhausted: _enqueue_tasks returns
PMEnqueueDone ==
    /\ pm_pc = "enqueue"
    /\ g_pc = "end"
    /\ pm_pc' = "monitor"
    /\ UNCHANGED <<inVars, auxVars, prodVars, task_q, workVars, result_q, collVars, histVars,
                   genVars, seqVars, mergeVars, max_workers, processes, pm_exc, results>>

\* lines 90, 72-82: the loop logs and sleeps while any process is alive
PMMonitor ==
    /\ pm_pc = "monitor"
    /\ IF AnyAlive THEN UNCHANGED pm_pc ELSE pm_pc' = "collect"
    /\ UNCHANGED <<inVars, auxVars, prodVars, task_q, workVars, result_q, collVars, histVars,
                   genVars, seqVars, mergeVars, max_workers, processes, pm_exc, results>>

\* lines 91, 63-70: while a process is alive or a result is queued, a result is
\* taken or the get times out
PMCollect ==
    /\ pm_pc = "collect"
    /\ IF AnyAlive \/ result_q # <<>>
       THEN /\ IF result_q # <<>>
               THEN /\ results' = Append(results, Head(result_q))
                    /\ result_q' = Tail(result_q)
               ELSE UNCHANGED <<results, result_q>>
            /\ UNCHANGED pm_pc
       ELSE /\ pm_pc' = "stop"
            /\ UNCHANGED <<results, result_q>>
    /\ UNCHANGED <<inVars, auxVars, prodVars, task_q, workVars, collVars, histVars,
                   genVars, seqVars, mergeVars, max_workers, processes, pm_exc>>

\* lines 92, 50-56: one None per process started, then every process is joined
PMStopWorkers ==
    /\ pm_pc = "stop"
    /\ task_q' = task_q \o [i \in DOMAIN processes |-> NoneTask]
    /\ pm_pc' = "join"
    /\ UNCHANGED <<inVars, auxVars, prodVars, workVars, result_q, collVars, histVars,
                   genVars, seqVars, mergeVars, max_workers, processes, pm_exc, results>>

\* lines 54-56: p.join() returns for a process that has ended
PMJoined ==
    /\ pm_pc = "join"
    /\ ~AnyAlive
    /\ pm_pc' = "merge"
    /\ UNCHANGED <<inVars, auxVars, prodVars, task_q, workVars, result_q, collVars, histVars,
                   genVars, seqVars, mergeVars, max_workers, processes, pm_exc, results>>

\* line 94: merge_partial_results(acc, part) is called with the one argument
\* self.results: TypeError, and run() ends with it instead of returning
PMMerge ==
    /\ pm_pc = "merge"
    /\ pm_pc' = "raised"
    /\ pm_exc' = "TypeError"
    /\ UNCHANGED <<inVars, auxVars, prodVars, task_q, workVars, result_q, collVars, histVars,
                   genVars, seqVars, mergeVars, max_workers, processes, results>>

NextPM ==
    \/ PMStartWorkers
    \/ PMListLogFiles \/ PMNextFile \/ PMReadLine \/ PMEndOfFile \/ PMPutTask \/ PMEnqueueDone
    \/ PMMonitor \/ PMCollect \/ PMStopWorkers \/ PMJoined \/ PMMerge

SpecPM == InitPM /\ [][NextPM]_vars

\* the process that calls run() keeps running
FairSpecPM == SpecPM /\ WF_vars(NextPM)

\* C4: ParallelManager.run terminates by returning the combined result: in every
\* state in which run() has no step left to take, it has returned.
C4_RunReturns == pm_pc = "returned" \/ ENABLED NextPM

-----------------------------------------------------------------------------
(***************************************************************************)
(* The two summarizers on one chunk, line by line: analysis.analyze_chunk  *)
(* on the lines as chunk_file_lines yields them, log_Analyzer.worker_entry *)
(* on the lines as LogAnalyzer.analyze reads them.                         *)
(***************************************************************************)
\* the lines of LinePool and three more that split(" ", 3) cuts in fewer than 4 parts
SumPool ==
    Range(LinePool) \cup
    {<<"garbage">>, <<"short", "ERROR", "line">>, <<"2025-10-08", "[INFO]", "x">>}

SumChunks == UNION {[1..k -> SumPool] : k \in 0..MaxSumLen}

InitSum ==
    /\ fs = <<>>
    /\ lines_per_chunk = 1
    /\ workers = 1
    /\ pc = "sum"
    /\ PipeIdle
    /\ QueuesIdle(0)
    /\ GenIdle /\ SeqIdle /\ MergeIdle /\ PMIdle
    /\ WLIdle /\ Plain
    /\ s_lines \in SumChunks
    /\ s_apos = 0
    /\ s_an = NewCounters
    /\ s_wpos = 0
    /\ s_wk = NewSummary

\* analysis.py lines 64-91: one iteration of "for line in lines"
SumAnalyzeLine ==
    /\ pc = "sum"
    /\ s_apos < Len(s_lines)
    /\ s_an' = analyze_line(s_an, s_lines[s_apos + 1])
    /\ s_apos' = s_apos + 1
    /\ UNCHANGED <<coreVars, notSum, s_lines, s_wpos, s_wk>>

\* log_Analyzer.py lines 24-46: one iteration of "for line in chunk"
SumWorkerLine ==
    /\ pc = "sum"
    /\ s_wpos < Len(s_lines)
    /\ s_wk' = worker_line(s_wk, ReadLine(s_lines[s_wpos + 1]))
    /\ s_wpos' = s_wpos + 1
    /\ UNCHANGED <<coreVars, notSum, s_lines, s_apos, s_an>>

NextSum == SumAnalyzeLine \/ SumWorkerLine

SpecSum == InitSum /\ [][NextSum]_vars

\* the fixed vocabulary of levels
Levels == {"INFO", "WARNING", "ERROR"}

\* the lines analyze_chunk has counted whose level field, in upper case, is in S
AnalyzedWithLevel(S) ==
    {i \in 1..s_apos : FieldsOf(s_lines[i]).parsed /\ FieldsOf(s_lines[i]).level \in S}

\* the lines worker_entry has counted whose first level word, in upper case, is in S
WorkedWithLevel(S) ==
    {i \in 1..s_wpos : Upper(MatchesOf(ReadLine(s_lines[i])).m) \in S}

\* C11: in each summarizer the error-bucket counts add up to the number of lines
\* counted under level ERROR: every ERROR line is in exactly one bucket, the
\* fallback bucket when its timestamp does not parse, and no other line is in one.
C11_ErrorsBucketedOnce ==
    /\ DictSum(s_an.errors_by_hour) = DictGet(s_an.by_level, "ERROR", 0)
    /\ DictSum(s_wk.errors_by_day) = DictGet(s_wk.by_level, "ERROR", 0)

\* C12: in each summarizer a line spelled WARN is counted under WARNING like one
\* spelled WARNING, and by_level has no key outside {INFO, WARNING, ERROR}.
C12_LevelNormalization ==
    /\ DictKeys(s_an.by_level) \subseteq Levels
    /\ DictKeys(s_wk.by_level) \subseteq Levels
    /\ DictGet(s_an.by_level, "WARNING", 0) = Cardinality(AnalyzedWithLevel({"WARN", "WARNING"}))
    /\ DictGet(s_wk.by_level, "WARNING", 0) = Cardinality(WorkedWithLevel({"WARN", "WARNING"}))

\* C13: every line adds 1 to lines_total whether or not it parses, and while
\* parse_log_line has returned None for every line counted, by_level, top_ips
\* and errors_by_hour are empty.
C13_ParserTolerance ==
    /\ s_an.lines_total = s_apos
    /\ (\A i \in 1..s_apos : parse_log_line(s_lines[i]) = None) =>
          /\ s_an.by_level = EmptyDict
          /\ s_an.top_ips = EmptyDict
          /\ s_an.errors_by_hour = EmptyDict

\* a whole chunk of several lines, none of which parses, has been summarized
C13_Witness ==
    /\ Len(s_lines) >= 2
    /\ s_apos = Len(s_lines)
    /\ \A i \in 1..s_apos : parse_log_line(s_lines[i]) = None
    /\ \E i, j \in 1..s_apos : s_lines[i] # s_lines[j]
    /\ s_an.lines_total = Len(s_lines)

-----------------------------------------------------------------------------
(***************************************************************************)
(* analysis.get_top_n_ips_from_acc, on the accumulator of the fold.        *)
(***************************************************************************)
\* items[:n]
Slice(items, n) ==
    IF n >= 0 THEN SubSeq(items, 1, Min2(n, Len(items)))
    ELSE SubSeq(items, 1, Max2(0, Len(items) + n))

\* faulty variant: the items are cut without being sorted
get_top_n_ips_from_acc_unsorted(a, n) == Slice(AccField(a, "top_ips", EmptyDict), n)

\* lines 141-144
get_top_n_ips_from_acc(a, n) ==
    Slice(SortedByCountDesc(AccField(a, "top_ips", EmptyDict)), n)

\* the position of address k in dict d
DictPos(d, k) == CHOOSE i \in DOMAIN d : d[i][1] = k

\* C14: for every n >= 0, get_top_n_ips_from_acc returns min(n, number of distinct
\* addresses) pairs of the accumulator, no address twice, in non-increasing count
\* order, every address left out counting no more than any returned; and the
\* sequence is fixed by the accumulator: addresses with equal counts come in the
\* accumulator's key order, so two calls return the same sequence.
C14_TopNRanking ==
    \A n \in 0..MaxTopN :
        LET d == AccField(run_acc, "top_ips", EmptyDict)
            r == get_top_n_ips_from_acc(run_acc, n)
        IN  /\ Len(r) = Min2(n, Cardinality(DictKeys(d)))
            /\ \A i \in DOMAIN r : r[i] \in Range(d)
            /\ \A i, j \in DOMAIN r : i # j => r[i][1] # r[j][1]
            /\ \A i, j \in DOMAIN r : i < j => r[i][2] >= r[j][2]
            /\ \A e \in Range(d) \ Range(r) : \A i \in DOMAIN r : e[2] <= r[i][2]
            /\ \A i, j \in DOMAIN r :
                  i < j /\ r[i][2] = r[j][2] => DictPos(d, r[i][1]) < DictPos(d, r[j][1])
            /\ \A e \in Range(d) \ Range(r) : \A i \in DOMAIN r :
                  e[2] = r[i][2] => DictPos(d, r[i][1]) < DictPos(d, e[1])

\* an accumulator of three addresses or more, not in count order, two of them
\* with equal counts, of which a proper part is asked for
C14_Witness ==
    LET d == AccField(run_acc, "top_ips", EmptyDict)
    IN  /\ Len(d) >= 3
        /\ \E i, j \in DOMAIN d : i < j /\ d[i][2] < d[j][2]
        /\ \E i, j \in DOMAIN d : i # j /\ d[i][2] = d[j][2]
        /\ Len(get_top_n_ips_from_acc(run_acc, 2)) = 2
        /\ get_top_n_ips_from_acc(run_acc, 2) # SubSeq(d, 1, 2)

-----------------------------------------------------------------------------
(***************************************************************************)
(* processor.worker_loop, one process, on a task queue that holds what its *)
(* caller put there.  A task is (file_path, chunk_index, lines), the       *)
(* 2-tuple (file_path, chunk_index), which line 100 cannot unpack, or      *)
(* None.  Faults are events: analyze_chunk may raise (process_chunk        *)
(* catches it), and a put on the result queue may raise.                   *)
(***************************************************************************)
\* str(Path(p)): a leading "./" is dropped
Path(f) == IF Len(f) > 2 /\ SubSeq(f, 1, 2) = "./" THEN SubSeq(f, 3, Len(f)) ELSE f

WLTasks ==
    {[shape |-> "task", file |-> "a.log", chunk_index |-> 0, lines |-> <<LinePool[2]>>],
     [shape |-> "task", file |-> "./b.log", chunk_index |-> 1,
      lines |-> <<LinePool[5], LinePool[4]>>],
     [shape |-> "short", file |-> "a.log", chunk_index |-> 2, lines |-> <<>>]}

InitWL ==
    /\ fs = <<>>
    /\ lines_per_chunk = 1
    /\ workers = 1
    /\ pc = "worker_loop"
    /\ PipeIdle
    /\ GenIdle /\ SeqIdle /\ MergeIdle /\ PMIdle
    /\ SumIdle /\ Plain
    /\ wpc = <<>> /\ wchunk = <<>> /\ wbuf = <<>>
    /\ task_q \in UNION {[1..k -> WLTasks \cup {WLNone}] : k \in 0..MaxTasks}
    /\ result_q = <<>>
    /\ stop_on_exception \in BOOLEAN
    /\ wl_pc = "get"
    /\ wl_task = WLNone
    /\ wl_hist = <<>>
    /\ wl_left = ""

wlRest == <<inVars, prodVars, workVars, collVars, histVars, genVars, seqVars, mergeVars,
            pmVars, notWL, stop_on_exception>>

\* the entry of the task being handled, changed by F
NoteHist(F(_)) == [wl_hist EXCEPT ![Len(wl_hist)] = F(@)]

\* lines 92-96: the next task is dequeued; None ends the loop
WLGet ==
    /\ wl_pc = "get"
    /\ task_q # <<>>
    /\ wl_task' = Head(task_q)
    /\ task_q' = Tail(task_q)
    /\ wl_hist' = Append(wl_hist, [task |-> Head(task_q), out |-> <<>>, raised |-> FALSE,
                                   caught |-> FALSE, put_failed |-> 0])
    /\ IF Head(task_q).shape = "None"
       THEN wl_pc' = "ended" /\ wl_left' = "sentinel"
       ELSE wl_pc' = "try" /\ UNCHANGED wl_left
    /\ UNCHANGED <<wlRest, result_q>>

\* faulty variant: an exception of analyze_chunk is swallowed and nothing is put
WLTry_swallow ==
    /\ wl_pc = "try"
    /\ IF wl_task.shape # "task"
       THEN /\ wl_hist' = NoteHist(LAMBDA h : [h EXCEPT !.caught = TRUE])
            /\ wl_pc' = "except"
            /\ UNCHANGED result_q
       ELSE \E raised, put_ok \in BOOLEAN :
               LET res == process_chunk(Path(wl_task.file), wl_task.chunk_index, wl_task.lines)
               IN  IF raised
                   THEN /\ wl_hist' = NoteHist(LAMBDA h : [h EXCEPT !.raised = TRUE])
                        /\ wl_pc' = "get"
                        /\ UNCHANGED result_q
                   ELSE IF put_ok
                   THEN /\ result_q' = Append(result_q, res)
                        /\ wl_hist' = NoteHist(LAMBDA h : [h EXCEPT !.out = Append(@, res)])
                        /\ wl_pc' = "get"
                   ELSE /\ wl_hist' = NoteHist(LAMBDA h :
                                          [h EXCEPT !.caught = TRUE, !.put_failed = @ + 1])
                        /\ wl_pc' = "except"
                        /\ UNCHANGED result_q
    /\ UNCHANGED <<wlRest, task_q, wl_task, wl_left>>

\* lines 98-102: the task is unpacked, process_chunk is called and its record put
WLTry ==
    /\ wl_pc = "try"
    /\ IF wl_task.shape # "task"
       THEN /\ wl_hist' = NoteHist(LAMBDA h : [h EXCEPT !.caught = TRUE])
            /\ wl_pc' = "except"
            /\ UNCHANGED result_q
       ELSE \E raised, put_ok \in BOOLEAN :
               LET res == IF raised
                          THEN process_chunk_error(Path(wl_task.file), wl_task.chunk_index)
                          ELSE process_chunk(Path(wl_task.file), wl_task.chunk_index,
                                             wl_task.lines)
               IN  IF put_ok
                   THEN /\ result_q' = Append(result_q, res)
                        /\ wl_hist' = NoteHist(LAMBDA h :
                                          [h EXCEPT !.raised = raised, !.out = Append(@, res)])
                        /\ wl_pc' = "get"
                   ELSE /\ wl_hist' = NoteHist(LAMBDA h :
                                          [h EXCEPT !.raised = raised, !.caught = TRUE,
                                                    !.put_failed = @ + 1])
                        /\ wl_pc' = "except"
                        /\ UNCHANGED result_q
    /\ UNCHANGED <<wlRest, task_q, wl_task, wl_left>>

\* lines 108-117
err_obj(t) ==
    [file |-> t.file, chunk_index |-> t.chunk_index, status |-> "error", result |-> None,
     fatal |-> TRUE]

\* faulty variant: the loop is left after any exception, whatever stop_on_exception is
WLExcept_break ==
    /\ wl_pc = "except"
    /\ \E put_ok \in BOOLEAN :
          IF put_ok
          THEN /\ result_q' = Append(result_q, err_obj(wl_task))
               /\ wl_hist' = NoteHist(LAMBDA h : [h EXCEPT !.out = Append(@, err_obj(wl_task))])
          ELSE /\ wl_hist' = NoteHist(LAMBDA h : [h EXCEPT !.put_failed = @ + 1])
               /\ UNCHANGED result_q
    /\ wl_pc' = "ended" /\ wl_left' = "stop_on_exception"
    /\ UNCHANGED <<wlRest, task_q, wl_task>>

\* lines 103-124: the handler puts err_obj, and leaves the loop if stop_on_exception
WLExcept ==
    /\ wl_pc = "except"
    /\ \E put_ok \in BOOLEAN :
          IF put_ok
          THEN /\ result_q' = Append(result_q, err_obj(wl_task))
               /\ wl_hist' = NoteHist(LAMBDA h : [h EXCEPT !.out = Append(@, err_obj(wl_task))])
          ELSE /\ wl_hist' = NoteHist(LAMBDA h : [h EXCEPT !.put_failed = @ + 1])
               /\ UNCHANGED result_q
    /\ IF stop_on_exception
       THEN wl_pc' = "ended" /\ wl_left' = "stop_on_exception"
       ELSE wl_pc' = "get" /\ UNCHANGED wl_left
    /\ UNCHANGED <<wlRest, task_q, wl_task>>

NextWL == WLGet \/ WLTry \/ WLExcept

SpecWL == InitWL /\ [][NextWL]_vars

\* the handling of the k-th task dequeued is over
Handled(k) == k < Len(wl_hist) \/ wl_pc \in {"get", "ended"}

C20_OnlySentinelEnds == wl_pc = "ended" => wl_left = "sentinel" /\ wl_task = WLNone

\* C20, amended: the loop is left on a dequeued None, or, with stop_on_exception
\* = True only, after an exception that reached worker_loop's own handler (a task
\* that cannot be unpacked, a put that raised); an exception of analyze_chunk,
\* which process_chunk catches, never leaves it.
C20_SentinelOrStopOnException ==
    wl_pc = "ended" =>
        LET h == wl_hist[Len(wl_hist)]
        IN  \/ wl_left = "sentinel" /\ wl_task = WLNone
            \/ /\ wl_left = "stop_on_exception"
               /\ stop_on_exception
               /\ h.caught
               /\ h.task.shape # "task" \/ h.put_failed >= 1

\* with stop_on_exception = False a worker that met every kind of fault has
\* ended on None
C20_Witness ==
    /\ ~stop_on_exception
    /\ wl_pc = "ended"
    /\ wl_left = "sentinel"
    /\ \E k \in DOMAIN wl_hist : wl_hist[k].raised
    /\ \E k \in DOMAIN wl_hist : wl_hist[k].caught

-----------------------------------------------------------------------------
(***************************************************************************)
(* Both producers on a directory some of whose files cannot be opened      *)
(* (removed after the listing, or not readable): LogAnalyzer.analyze, and  *)
(* log_utils.iter_chunks_from_dir under run_sequential_from_dir.           *)
(***************************************************************************)
InitFault ==
    /\ InitAnalyze \/ InitSeqRun
    /\ CfgIdle /\ MonIdle
    /\ seq_failed = {}
    /\ unreadable \in SUBSET {n \in DOMAIN fs : fs[n].matched}

\* the steps of analyze and of the worker processes it started, and the steps of
\* the sequential run
NextFault ==
    \/ Main
    \/ \E w \in DOMAIN wpc : WorkerMain(w) \/ Feeder(w)
    \/ NextSeq
    \/ SeqRaise

SpecFault == InitFault /\ [][NextFault]_vars

\* the directory without the files that cannot be opened
Readable == [n \in DOMAIN fs |-> IF n \in unreadable THEN NoMatch ELSE fs[n]]

\* the chunks iter_chunks_from_dir yields for directory d with chunk size c
GenChunks(d, c) ==
    Flatten([n \in DOMAIN d |-> IF d[n].matched THEN chunk_lines(d[n].lines, c) ELSE <<>>])

\* C16: a file that cannot be opened is skipped and nothing else is: when
\* LogAnalyzer.analyze has put its sentinels, the chunks enqueued before them are
\* all the chunks of the files that can be read, and there is one sentinel per
\* worker; when the run over iter_chunks_from_dir is over, the chunks yielded are
\* all the chunks of the files that can be read.
C16_FileErrorIsolation ==
    /\ pc \in {"collect", "poll", "done"} =>
          /\ nsent = workers
          /\ [i \in 1..(Len(enq) - nsent) |-> enq[i].lines]
                = ProducedChunks(Readable, lines_per_chunk)
    /\ pc \in {"seq_done", "seq_raised"} =>
          [i \in DOMAIN yielded |-> yielded[i].lines] = GenChunks(Readable, lines_per_chunk)

-----------------------------------------------------------------------------
(***************************************************************************)
(* The constructors with the arguments they were given:                    *)
(* LogAnalyzer.__init__ lines 68-69 and ParallelManager.__init__ lines     *)
(* 33-34, followed by analyze() and by run().  For ParallelManager the     *)
(* argument 0 stands for 0 and for None, which are told apart nowhere.     *)
(***************************************************************************)
InitCfg ==
    \/ /\ InitAnalyze /\ FaultIdle /\ MonIdle
       /\ arg_lines_per_chunk \in {a \in 0..MaxChunk : ClampArg(a) = lines_per_chunk}
       /\ arg_workers \in {a \in 0..MaxWorkers : ClampArg(a) = workers}
    \/ /\ InitPMRun /\ MonIdle
       /\ arg_lines_per_chunk \in
             {a \in 0..MaxChunk : OrDefault(a, DEFAULT_LINES_PER_CHUNK) = lines_per_chunk}
       /\ arg_workers \in {a \in WorkerArgs : OrDefault(a, DEFAULT_MAX_WORKERS) = max_workers}

NextCfg ==
    \/ Main
    \/ \E w \in DOMAIN wpc : WorkerMain(w) \/ Feeder(w)
    \/ NextPM

SpecCfg == InitCfg /\ [][NextCfg]_vars

\* C17: a chunk size or worker count below 1 is rejected before any worker is
\* started and before any task is enqueued, and a run that proceeds uses the
\* chunk size and the worker count it was given.
C17_ConfigFailFast ==
    /\ pc # "pm" =>
          /\ (arg_lines_per_chunk < 1 \/ arg_workers < 1) =>
                /\ pc = "start"
                /\ enq = <<>>
                /\ \A w \in DOMAIN wpc : wpc[w] = "new"
          /\ pc # "start" => lines_per_chunk = arg_lines_per_chunk /\ workers = arg_workers
    /\ pc = "pm" /\ arg_workers < 0 =>
          /\ pm_pc = "start"
          /\ task_q = <<>>
          /\ processes = <<>>

-----------------------------------------------------------------------------
(***************************************************************************)
(* What a run with nothing to merge returns: analyze returns _merge([])    *)
(* (log_Analyzer.py lines 222-245), run_sequential_from_dir returns the    *)
(* acc of processor.py line 140, which no merge_partial_results touched.   *)
(***************************************************************************)
NoPositive(d) == \A i \in DOMAIN d : d[i][2] <= 0

\* C18: a completed run that had no chunk returns an accumulator with a
\* lines_total field equal to 0 and count maps with no positive entry, from
\* analyze and from run_sequential_from_dir.
C18_AlwaysAnAccumulator ==
    /\ pc = "done" /\ chunks_sent = 0 =>
          /\ result.lines_total = 0
          /\ NoPositive(result.by_level)
          /\ NoPositive(result.ip_counts)
          /\ NoPositive(result.errors_by_day)
    /\ pc = "seq_done" /\ total_chunks = 0 =>
          /\ "lines_total" \in DOMAIN run_acc
          /\ run_acc.lines_total = 0
          /\ NoPositive(run_acc.by_level)
          /\ NoPositive(run_acc.top_ips)
          /\ NoPositive(run_acc.errors_by_hour)

-----------------------------------------------------------------------------
(***************************************************************************)
(* LogAnalyzer.analyze with self.monitor: the monitor thread of            *)
(* _start_monitor (log_Analyzer.py lines 82-124) runs beside the main      *)
(* thread and the workers; analyze clears its flag and joins it with a     *)
(* timeout (lines 216-218).                                                *)
(***************************************************************************)
InitMon ==
    /\ InitAnalyze /\ FaultIdle /\ CfgIdle
    /\ monitor = TRUE
    /\ mon_pc = "none" /\ mon_run = FALSE /\ mon_late = FALSE

\* what a step of the monitor thread leaves alone
monRest == <<coreVars, notMon, monitor>>

\* faulty variant: the loop never looks at the flag
MonCheck_forever ==
    /\ mon_pc = "check"
    /\ mon_pc' = "sample"
    /\ mon_late' = (mon_late \/ ~mon_run)
    /\ UNCHANGED <<monRest, mon_run>>

\* line 94: while stop["run"]
MonCheck ==
    /\ mon_pc = "check"
    /\ mon_pc' = IF mon_run THEN "sample" ELSE "exited"
    /\ mon_late' = mon_late
    /\ UNCHANGED <<monRest, mon_run>>

\* lines 95-117: one sample is logged; an exception of the sampling is caught and logged
MonSample ==
    /\ mon_pc = "sample"
    /\ mon_pc' = "sleep"
    /\ UNCHANGED <<monRest, mon_run, mon_late>>

\* line 118: time.sleep(interval) returns
MonSleep ==
    /\ mon_pc = "sleep"
    /\ mon_pc' = "check"
    /\ UNCHANGED <<monRest, mon_run, mon_late>>

\* lines 210-217: get_nowait raises Empty, the workers are joined with a timeout
\* and the flag of the monitor thread is cleared
StopMonitor ==
    /\ pc = "collect"
    /\ alive = 0
    /\ result_q = <<>>
    /\ monitor
    /\ mon_run' = FALSE
    /\ pc' = "mon_join"
    /\ UNCHANGED <<extVars, inVars, notMon, monitor, mon_pc, mon_late, fnames, fidx, pos, files,
                   chunks_sent, nsent, task_q, workVars, result_q, partials, alive, histVars>>

\* lines 218-220: mon_thread.join(timeout=1.0) returns, the thread having ended
\* or the second having passed, and analyze returns
JoinMonitor ==
    /\ pc = "mon_join"
    /\ pc' = "done"
    /\ UNCHANGED <<extVars, inVars, auxVars, fnames, fidx, pos, files, chunks_sent, nsent, task_q,
                   workVars, result_q, partials, alive, histVars>>

NextMon ==
    \/ StartWorkers \/ ListDir \/ NextFile \/ PutChunk \/ EndFile \/ PutSentinel
    \/ CollectGet \/ CollectEmpty \/ CollectPoll \/ DrainGet
    \/ \E w \in DOMAIN wpc : WorkerMain(w) \/ Feeder(w)
    \/ MonCheck \/ MonSample \/ MonSleep
    \/ StopMonitor \/ JoinMonitor

SpecMon == InitMon /\ [][NextMon]_vars

\* C19: the flag of the monitor is cleared only once the collector has left its
\* loops with the result queue drained; analyze, waiting for the monitor, can
\* return whatever the monitor thread is doing; and the monitor begins no
\* sampling iteration after the flag was cleared.
C19_MonitorNeverBlocksShutdown ==
    /\ mon_pc # "none" /\ ~mon_run =>
          /\ pc \in {"mon_join", "done"}
          /\ alive = 0
          /\ result_q = <<>>
    /\ pc = "mon_join" => ENABLED JoinMonitor
    /\ ~mon_late
    /\ pc = "done" => mon_pc # "none" /\ ~mon_run

\* analyze has returned while the monitor thread, its flag cleared, still sleeps
C19_Witness == pc = "done" /\ ~mon_run /\ mon_pc = "sleep" /\ partials # <<>>

-----------------------------------------------------------------------------
(***************************************************************************)
(* The collector of LogAnalyzer.analyze (log_Analyzer.py lines 197-211)    *)
(* against the workers' puts on the result queue (lines 48-53).            *)
(***************************************************************************)
\* C21: when the polling loop and the drain of the collector have ended, the
\* result queue is empty, nothing is left with a feeder thread and as many
\* partial results were collected as the workers put; the polling loop ends
\* only once every worker process has ended.
C21_CollectorCompleteness ==
    /\ pc = "done" =>
          /\ result_q = <<>>
          /\ \A w \in Workers : wbuf[w] = <<>>
          /\ Len(partials) = SumSeq(pub)
    /\ (pc = "collect" /\ alive = 0) \/ pc = "done" => \A w \in Workers : wpc[w] = "dead"

\* a run of two workers over two chunks has returned with a result for each
C21_Witness ==
    /\ pc = "done"
    /\ workers = 2
    /\ Len(partials) = chunks_sent
    /\ chunks_sent = MaxLines \div 2

-----------------------------------------------------------------------------
(***************************************************************************)
(* LogAnalyzer.analyze with worker processes that end without having taken *)
(* a sentinel: an exception leaves worker_entry (log_Analyzer.py lines     *)
(* 14-53 catch none), or the process is killed.                            *)
(***************************************************************************)
\* worker w ends in its loop: after an exception the process exits as after a
\* return and its feeder thread writes what it holds; a killed process loses it.
\* The chunk it was working on is lost with it.
WorkerCrash(w) ==
    /\ wpc[w] \in {"get", "work"}
    /\ wchunk' = [wchunk EXCEPT ![w] = NoneTask]
    /\ \E killed \in BOOLEAN :
          IF killed
          THEN /\ wpc' = [wpc EXCEPT ![w] = "dead"]
               /\ wbuf' = [wbuf EXCEPT ![w] = <<>>]
          ELSE /\ wpc' = [wpc EXCEPT ![w] = "exit"]
               /\ UNCHANGED wbuf
    /\ UNCHANGED <<extVars, inVars, auxVars, prodVars, task_q, result_q, collVars, histVars>>

NextCrash ==
    \/ StartWorkers \/ ListDir \/ NextFile \/ PutChunk \/ EndFile \/ PutSentinel
    \/ CollectGet \/ CollectEmpty \/ CollectPoll \/ DrainGet \/ Return
    \/ \E w \in Workers : WorkerGet(w) \/ WorkerPut(w) \/ Feed(w) \/ WorkerExit(w)
    \/ \E w \in Workers : WorkerCrash(w)

SpecCrash == Init /\ [][NextCrash]_vars

\* every process and thread that can run is eventually scheduled; no worker has to end early
FairSpecCrash ==
    /\ SpecCrash
    /\ WF_vars(Main)
    /\ \A w \in 1..MaxWorkers : WF_vars(WorkerMain(w)) /\ WF_vars(Feeder(w))

\* C22: under fair scheduling analyze returns, whichever workers end without
\* having taken a sentinel and whenever they do.
C22_TerminationDespiteWorkerExit == <>(pc = "done")

-----------------------------------------------------------------------------
(***************************************************************************)
(* The bounded task queue of LogAnalyzer.analyze (log_Analyzer.py line     *)
(* 129), with files long enough for a put of a chunk to find it full.      *)
(***************************************************************************)
\* one worker and one file of up to MaxBurst lines
InitBurst ==
    /\ AuxIdle /\ Plain
    /\ fs \in {<<FileOf(1, k, 0)>> : k \in 0..MaxBurst}
    /\ lines_per_chunk \in {ClampArg(c) : c \in 0..MaxChunk}
    /\ workers = ClampArg(0)
    /\ pc = "start"
    /\ PipeIdle
    /\ QueuesIdle(workers)
    /\ GenIdle /\ SeqIdle /\ MergeIdle /\ PMIdle

\* the runs of Spec, and those over one long file
InitBP == Init \/ InitBurst

SpecBP == InitBP /\ [][Next]_vars

\* C23: the task queue never holds more than 4 x workers items, chunks and
\* sentinels together, and while it holds that many the producer can put
\* neither a chunk nor a sentinel.
C23_BackpressureBound ==
    /\ Len(task_q) <= QueueFactor * workers
    /\ Len(task_q) = QueueFactor * workers =>
          /\ ~ENABLED PutChunk
          /\ pc = "sentinels" /\ nsent < workers => ~ENABLED PutSentinel

\* the producer waits with a chunk in hand for the worker to take one of a full queue
C23_Witness ==
    /\ pc = "read"
    /\ Len(task_q) = QueueFactor * workers
    /\ ReadBuf(fs[fnames[fidx]].lines, pos, <<>>, lines_per_chunk) # <<>>
    /\ \A k \in DOMAIN task_q : task_q[k].kind = "chunk"

-----------------------------------------------------------------------------
(***************************************************************************)
(* The sentinels of LogAnalyzer.analyze (log_Analyzer.py lines 193-195)    *)
(* as the workers take them (lines 14-18).                                 *)
(***************************************************************************)
\* the workers that have left their loop: each did so on taking a None
LeftLoop == {w \in Workers : wpc[w] \in {"exit", "dead"}}

\* the sentinels put and not yet taken
SentinelsQueued == Cardinality({k \in DOMAIN task_q : task_q[k].kind = "None"})

\* C24: when a worker has taken a sentinel every chunk has been taken before
\* and the producer has put its last chunk; the sentinels taken are one per
\* worker that left its loop, which takes nothing more; and once all workers
\* have ended the task queue is empty.
C24_SentinelsLast ==
    /\ nsent - SentinelsQueued > 0 =>
          /\ pc \in {"sentinels", "collect", "poll", "done"}
          /\ \A i \in 1..chunks_sent : deq[i] = 1
          /\ \A k \in DOMAIN task_q : task_q[k].kind = "None"
    /\ nsent - SentinelsQueued = Cardinality(LeftLoop)
    /\ (\A w \in Workers : wpc[w] = "dead") => task_q = <<>> /\ nsent = workers

\* one worker has left on its sentinel while the other still works on a chunk,
\* the second sentinel not yet put
C24_Witness ==
    /\ workers = 2
    /\ Cardinality(LeftLoop) = 1
    /\ \E w \in Workers : wpc[w] = "work"
    /\ nsent = 1
    /\ chunks_sent >= 2

-----------------------------------------------------------------------------
(***************************************************************************)
(* The ranking of LogAnalyzer._merge (log_Analyzer.py lines 222-237) over  *)
(* the partial results in the order the collector received them.           *)
(***************************************************************************)
\* C25: the top_10_ips analyze returns, the order of addresses of equal count
\* included, is a function of the files and the chunk size: the ranking of the
\* partial results taken in the order of production, for every interleaving
\* and every order of arrival.
C25_TopNDeterminism ==
    pc = "done" =>
        result.top_10_ips = _merge(ProducedPartials(fs, lines_per_chunk)).top_10_ips

-----------------------------------------------------------------------------
(***************************************************************************)
(* processor.run_sequential_from_dir when analyze_chunk raises on some     *)
(* chunks: process_chunk returns the record of lines 62-72 and the loop    *)
(* takes the else branch of lines 150-152.                                 *)
(***************************************************************************)
\* lines 143-152: the body of the loop on a chunk whose analyze_chunk raises
SeqBodyError ==
    /\ pc = "seq"
    /\ Suspended
    /\ total_chunks' = total_chunks + 1
    /\ LET res_obj == process_chunk_error(item.file, item.chunk_index)
       IN  IF res_obj.status = "ok"
           THEN run_acc' = merge_partial_results(run_acc, res_obj.result)
           ELSE UNCHANGED run_acc
    /\ seq_failed' = seq_failed \cup {Len(yielded)}
    /\ GenResume
    /\ UNCHANGED <<inVars, sumVars, wlVars, cfgVars, monVars, unreadable, prodVars, task_q,
                   workVars, result_q, collVars, histVars, mergeVars, pmVars>>

NextSeqErr ==
    \/ SeqListLogFiles \/ SeqNextFile \/ SeqReadLine \/ SeqEndOfFile \/ SeqBody \/ SeqReturn
    \/ SeqBodyError

SpecSeqErr == InitSeq /\ [][NextSeqErr]_vars

\* the lines of the chunks yielded whose status was ok
OkLines ==
    SumSeq([i \in DOMAIN yielded |-> IF i \in seq_failed THEN 0 ELSE Len(yielded[i].lines)])

\* C26: a run of run_sequential_from_dir in which chunks had status error goes
\* through every chunk, and the lines_total of the accumulator it returns is the
\* number of lines of the chunks whose status was ok, those of status error
\* having added nothing.
C26_ErrorLeavesAccumulator ==
    pc = "seq_done" /\ seq_failed # {} =>
        /\ total_chunks = Len(yielded)
        /\ "lines_total" \in DOMAIN run_acc
        /\ run_acc.lines_total = OkLines

-----------------------------------------------------------------------------
(***************************************************************************)
(* Bounds on the counts of analysis.analyze_chunk (analysis.py lines       *)
(* 59-99) and of the accumulators analysis.merge_partial_results (lines    *)
(* 102-133) folds them into.                                               *)
(***************************************************************************)
CountFields == {"by_level", "top_ips", "errors_by_hour"}

\* the bounds on a partial result or an accumulator; {} has no field yet
CountsBounded(a) ==
    /\ AccField(a, "lines_total", 0) >= 0
    /\ \A field \in CountFields :
          LET d == AccField(a, field, EmptyDict)
          IN  /\ \A i \in DOMAIN d : d[i][2] >= 1
              /\ DictSum(d) <= AccField(a, "lines_total", 0)

\* a merge leaves every key in place with a count not below the one it had
MergeGrows ==
    /\ AccField(run_acc', "lines_total", 0) >= AccField(run_acc, "lines_total", 0)
    /\ \A field \in CountFields :
          LET d == AccField(run_acc, field, EmptyDict)
              e == AccField(run_acc', field, EmptyDict)
          IN  \A k \in DictKeys(d) : DictHas(e, k) /\ DictGet(e, k, 0) >= DictGet(d, k, 0)

\* C27: every partial result of analyze_chunk and every accumulator folded
\* from such partials has lines_total >= 0, every stored count >= 1 and, in
\* each of by_level, top_ips and errors_by_hour, a sum of counts of at most
\* lines_total; a merge lowers neither lines_total nor the count of a key and
\* removes no key.
C27_CountBounds ==
    /\ [](CountsBounded(run_acc) /\ \A i \in DOMAIN m_parts : CountsBounded(m_parts[i]))
    /\ [][MergeGrows]_vars

\* three partials folded, one of them of lines that count under no key, into an
\* accumulator in which an address has a count above 1
C27_Witness ==
    /\ Cardinality(Merged) >= 3
    /\ \E i \in Merged : m_parts[i].lines_total >= 1 /\ m_parts[i].by_level = EmptyDict
    /\ \E k \in DictKeys(run_acc.top_ips) : DictGet(run_acc.top_ips, k, 0) >= 2
    /\ DictSum(run_acc.by_level) < run_acc.lines_total

=============================================================================
